---------------------------- MODULE Spec2Model ----------------------------
(***************************************************************************)
(* Model of the chunked spreadsheet transformation engine                  *)
(* (ChunkedExcelProcessor) and of the three routes that drive it:          *)
(* analyze-chunked, apply-chunked-recommendation and download-chunked.     *)
(***************************************************************************)
EXTENDS Integers, Sequences, FiniteSets, TLC

(***************************************************************************)
(* Bounds of the model.                                                    *)
(***************************************************************************)
MaxFamilyRows == 11
MaxChunkSize == 3
MaxAccepts == 2
MaxSheets == 11
MaxCalls == 3
MaxParseLoop == 2
MaxEnhancedRows == 3

(***************************************************************************)
(* Program constants.                                                      *)
(***************************************************************************)
DefaultChunkSize == 1000
AnalyzeBatchSize == 5
ApplyBatchSize == 3
DownloadBatchSize == 5

(***************************************************************************)
(* Generic sequence helpers (Array.prototype.map / filter / push(...)).    *)
(***************************************************************************)
Range(s) == {s[i] : i \in DOMAIN s}

Min(a, b) == IF a < b THEN a ELSE b

Max(a, b) == IF a > b THEN a ELSE b

\* Math.ceil(a / b) for a >= 0 and b # 0; the quotient by a negative b is not
\* positive.
CeilDiv(a, b) == IF a <= 0 THEN 0
                 ELSE IF b > 0 THEN ((a + b - 1) \div b)
                 ELSE 0 - (a \div (0 - b))

Slice(s, from, to) == IF from >= to \/ from >= Len(s) THEN <<>>
                      ELSE SubSeq(s, from + 1, Min(to, Len(s)))

RECURSIVE Flatten(_)
Flatten(ss) == IF ss = <<>> THEN <<>> ELSE Head(ss) \o Flatten(Tail(ss))

IndexOf(s, x) == IF \E i \in DOMAIN s : s[i] = x
                 THEN CHOOSE i \in DOMAIN s : s[i] = x /\ \A j \in 1..(i - 1) : s[j] # x
                 ELSE 0

(***************************************************************************)
(* Cell values.  A cell read from a worksheet is null (no cell), a number  *)
(* or a string; a transformation can also store undefined.  A string is    *)
(* the sequence of its characters.                                         *)
(***************************************************************************)
Null == [t |-> "null", n |-> 0, d |-> 1, s |-> <<>>]

Undefined == [t |-> "undefined", n |-> 0, d |-> 1, s |-> <<>>]

\* A number is the fraction n/d in lowest terms (d = 1 for an integer).
Num(k) == [t |-> "number", n |-> k, d |-> 1, s |-> <<>>]

Str(chars) == [t |-> "string", n |-> 0, d |-> 1, s |-> chars]

\* cell === null || cell === undefined || cell === ""
IsEmptyCell(c) == c.t \in {"null", "undefined"} \/ (c.t = "string" /\ c.s = <<>>)


(***************************************************************************)
(* Strings.  The characters of the model: lower and upper case letters,    *)
(* digits, the space, and the delimiters , ; |                             *)
(***************************************************************************)
Digits == <<"0", "1", "2", "3", "4", "5", "6", "7", "8", "9">>

IsDigit(c) == c \in Range(Digits)

DigitValue(c) == IndexOf(Digits, c) - 1

IsSpace(c) == c = " "

LowerOf(c) == CASE c = "A" -> "a" [] c = "B" -> "b" [] c = "C" -> "c" [] OTHER -> c

UpperOf(c) == CASE c = "a" -> "A" [] c = "b" -> "B" [] c = "c" -> "C" [] OTHER -> c

\* \w of a regular expression
IsWordChar(c) == IsDigit(c) \/ c \in {"a", "b", "c", "A", "B", "C", "_"}

toLowerCase(s) == [i \in DOMAIN s |-> LowerOf(s[i])]

toUpperCase(s) == [i \in DOMAIN s |-> UpperOf(s[i])]

RECURSIVE TrimStart(_)
TrimStart(s) == IF s # <<>> /\ IsSpace(Head(s)) THEN TrimStart(Tail(s)) ELSE s

RECURSIVE TrimEnd(_)
TrimEnd(s) == IF s # <<>> /\ IsSpace(s[Len(s)]) THEN TrimEnd(SubSeq(s, 1, Len(s) - 1)) ELSE s

trim(s) == TrimEnd(TrimStart(s))

\* s.replace(/\s+/g, " "): a character of a whitespace run is kept only if
\* it is the first of the run.
CollapseWhitespace(s) ==
    LET keep(i) == ~IsSpace(s[i]) \/ i = 1 \/ ~IsSpace(s[i - 1])
        F[i \in 0..Len(s)] ==
            IF i = 0 THEN <<>>
            ELSE IF keep(i) THEN Append(F[i - 1], s[i]) ELSE F[i - 1]
    IN F[Len(s)]

\* s.replace(/\w\S*/g, txt => txt.charAt(0).toUpperCase() + txt.substr(1).toLowerCase())
TitleCase(s) ==
    LET inToken(i) == i >= 1 /\ \E j \in 1..i :
                          IsWordChar(s[j]) /\ \A k \in j..i : ~IsSpace(s[k])
        tokenStart(i) == IsWordChar(s[i]) /\ ~inToken(i - 1)
    IN [i \in DOMAIN s |->
            IF tokenStart(i) THEN UpperOf(s[i])
            ELSE IF inToken(i) THEN LowerOf(s[i]) ELSE s[i]]

\* s.replace(/\D/g, "")
DigitsOnly(s) == SelectSeq(s, IsDigit)

\* `(${cleaned.slice(0, 3)}) ${cleaned.slice(3, 6)}-${cleaned.slice(6)}`
PhoneFormat(cleaned) ==
    <<"(">> \o Slice(cleaned, 0, 3) \o <<")", " ">> \o Slice(cleaned, 3, 6)
        \o <<"-">> \o Slice(cleaned, 6, Len(cleaned))

\* The value of a string of decimal digits.
RECURSIVE DecimalValue(_)
DecimalValue(s) == IF s = <<>> THEN 0
                   ELSE 10 * DecimalValue(SubSeq(s, 1, Len(s) - 1)) + DigitValue(s[Len(s)])

\* The decimal digits of a natural number (String(n)).
RECURSIVE DecimalString(_)
DecimalString(k) == IF k < 10 THEN <<Digits[k + 1]>>
                    ELSE DecimalString(k \div 10) \o <<Digits[(k % 10) + 1]>>

\* !isNaN(Number(cell)) for a cell that is a number or a string: Number()
\* of a string trims it; the empty string is 0, a digit string its value,
\* anything else (of the model's characters) NaN.
IsNumeric(c) ==
    \/ c.t = "number"
    \/ c.t = "null"
    \/ c.t = "string" /\ \A i \in DOMAIN trim(c.s) : IsDigit(trim(c.s)[i])

\* Number(cell), for IsNumeric(cell)
NumberOf(c) == IF c.t = "number" THEN c
               ELSE IF c.t = "string" THEN Num(DecimalValue(trim(c.s)))
               ELSE Num(0)

\* String(cell).  A fraction n/d that is no integer is written n "/" d (its
\* decimal expansion is not modelled; the writing is injective).
StringOf(c) ==
    CASE c.t = "string" -> c.s
      [] c.t = "number" -> IF c.d = 1 THEN DecimalString(c.n)
                           ELSE DecimalString(c.n) \o <<"/">> \o DecimalString(c.d)
      [] c.t = "null" -> <<"n", "u", "l", "l">>
      [] OTHER -> <<"u", "n", "d", "e", "f", "i", "n", "e", "d">>

\* JSON.stringify(row): undefined is written null inside an array; a number
\* and the string of its digits are written differently.
JsonCell(c) == IF c.t = "undefined" THEN Null ELSE c

JSONstringify(row) == [i \in DOMAIN row |-> JsonCell(row[i])]

(***************************************************************************)
(* Fractions, for the mean of a column.                                    *)
(***************************************************************************)
RECURSIVE GCD(_, _)
GCD(a, b) == IF b = 0 THEN a ELSE GCD(b, a % b)

Fraction(n, d) == LET g == GCD(n, d)
                  IN [t |-> "number", n |-> n \div g, d |-> d \div g, s |-> <<>>]

NumAdd(a, b) == Fraction(a.n * b.d + b.n * a.d, a.d * b.d)

NumLess(a, b) == a.n * b.d < b.n * a.d

RECURSIVE NumSum(_)
NumSum(nums) == IF nums = <<>> THEN Num(0) ELSE NumAdd(Head(nums), NumSum(Tail(nums)))

(***************************************************************************)
(* Rows and payloads.  A payload (any[][]) is the header row and the data  *)
(* rows; chunkData.length < 2 is rows = <<>>.                              *)
(***************************************************************************)
Payload(headers, rows) == [headers |-> headers, rows |-> rows]

\* row[idx]: undefined past the end of the row
CellAt(row, idx) == IF idx \in DOMAIN row THEN row[idx] ELSE Undefined

\* row[idx] = v: an assignment past the end of the row extends it
SetCell(row, idx, v) ==
    IF idx \in DOMAIN row THEN [row EXCEPT ![idx] = v]
    ELSE [i \in 1..idx |-> IF i \in DOMAIN row THEN row[i]
                            ELSE IF i = idx THEN v ELSE Undefined]

\* dataRows.map(row => row[columnIndex])
Column(rows, idx) == [i \in DOMAIN rows |-> CellAt(rows[i], idx)]

(***************************************************************************)
(* Transformation descriptors.  One record shape for all types; a field a  *)
(* descriptor does not carry is "" (or Undefined for value).  hasColumns   *)
(* is FALSE for a descriptor without a columns array.                      *)
(***************************************************************************)
Transformation(type, sheet) ==
    [type |-> type, sheet |-> sheet, column |-> "", method |-> "", value |-> Undefined,
     format |-> "", targetType |-> "", hasColumns |-> FALSE, columns |-> <<>>,
     newTableName |-> "", delimiter |-> {}, requiresCrossChunkCoordination |-> FALSE]

(***************************************************************************)
(* fillMissingValuesInChunk                                                *)
(***************************************************************************)
\* Object.keys(frequency): the keys that are array indices ("0", "7", "12")
\* come first in ascending numeric order, the others follow in insertion
\* order.
IsArrayIndexKey(k) == /\ k # <<>>
                      /\ \A i \in DOMAIN k : IsDigit(k[i])
                      /\ (Len(k) > 1 => k[1] # "0")
                      /\ Len(k) <= 9

RECURSIVE DistinctInOrder(_)
DistinctInOrder(s) ==
    IF s = <<>> THEN <<>>
    ELSE LET init == DistinctInOrder(SubSeq(s, 1, Len(s) - 1))
             last == s[Len(s)]
         IN IF last \in Range(init) THEN init ELSE Append(init, last)

ObjectKeys(keysInInsertionOrder) ==
    LET k == DistinctInOrder(keysInInsertionOrder)
        idx == SelectSeq(k, IsArrayIndexKey)
        rest == SelectSeq(k, LAMBDA x : ~IsArrayIndexKey(x))
    IN SortSeq(idx, LAMBDA a, b : DecimalValue(a) < DecimalValue(b)) \o rest

\* Object.keys(frequency).reduce((a, b) => (frequency[a] > frequency[b] ? a : b))
ModeKey(columnData) ==
    LET strs == [i \in DOMAIN columnData |-> StringOf(columnData[i])]
        freq(k) == Cardinality({i \in DOMAIN strs : strs[i] = k})
        keys == ObjectKeys(strs)
        R[i \in 1..Len(keys)] ==
            IF i = 1 THEN keys[1]
            ELSE IF freq(R[i - 1]) > freq(keys[i]) THEN R[i - 1] ELSE keys[i]
    IN R[Len(keys)]

FillValue(columnData, t) ==
    LET numbers == SelectSeq(columnData, IsNumeric)
        nums == [i \in DOMAIN numbers |-> NumberOf(numbers[i])]
        sorted == SortSeq(nums, NumLess)
    IN IF t.method = "median" /\ columnData # <<>>
       THEN IF Len(sorted) > 0 THEN sorted[(Len(sorted) \div 2) + 1] ELSE Num(0)
       ELSE IF t.method = "mean" /\ columnData # <<>>
       THEN IF Len(nums) > 0
            THEN LET sum == NumSum(nums) IN Fraction(sum.n, sum.d * Len(nums))
            ELSE Num(0)
       ELSE IF t.method = "mode" /\ columnData # <<>>
       THEN Str(ModeKey(columnData))
       ELSE t.value

fillMissingValuesInChunk(chunkData, t) ==
    LET columnIndex == IndexOf(chunkData.headers, t.column)
        columnData == SelectSeq(Column(chunkData.rows, columnIndex),
                                LAMBDA c : ~IsEmptyCell(c))
        fillValue == FillValue(columnData, t)
    IN IF columnIndex = 0 THEN chunkData
       ELSE Payload(chunkData.headers,
                    [i \in DOMAIN chunkData.rows |->
                        IF IsEmptyCell(CellAt(chunkData.rows[i], columnIndex))
                        THEN SetCell(chunkData.rows[i], columnIndex, fillValue)
                        ELSE chunkData.rows[i]])

(***************************************************************************)
(* removeDuplicatesInChunk                                                 *)
(***************************************************************************)
\* A filter that keeps the last occurrence of a row instead of the first
removeDuplicatesKeepLast(chunkData, t) ==
    LET dataRows == chunkData.rows
        lastSeen(i) == \A j \in (i + 1)..Len(dataRows) :
                           JSONstringify(dataRows[j]) # JSONstringify(dataRows[i])
        F[i \in 0..Len(dataRows)] ==
            IF i = 0 THEN <<>>
            ELSE IF lastSeen(i) THEN Append(F[i - 1], dataRows[i]) ELSE F[i - 1]
    IN Payload(chunkData.headers, F[Len(dataRows)])

removeDuplicatesInChunk(chunkData, t) ==
    LET dataRows == chunkData.rows
        firstSeen(i) == \A j \in 1..(i - 1) :
                            JSONstringify(dataRows[j]) # JSONstringify(dataRows[i])
        F[i \in 0..Len(dataRows)] ==
            IF i = 0 THEN <<>>
            ELSE IF firstSeen(i) THEN Append(F[i - 1], dataRows[i]) ELSE F[i - 1]
    IN Payload(chunkData.headers, F[Len(dataRows)])

(***************************************************************************)
(* standardizeFormatInChunk, fixDataTypesInChunk, trimWhitespaceInChunk:   *)
(* a rewrite of the cells of one column.                                   *)
(***************************************************************************)
MapColumn(chunkData, column, f(_)) ==
    LET columnIndex == IndexOf(chunkData.headers, column)
    IN IF columnIndex = 0 THEN chunkData
       ELSE Payload(chunkData.headers,
                    [i \in DOMAIN chunkData.rows |->
                        LET cell == CellAt(chunkData.rows[i], columnIndex)
                        IN IF f(cell) = cell THEN chunkData.rows[i]
                           ELSE SetCell(chunkData.rows[i], columnIndex, f(cell))])

StandardizeCell(cell, format) ==
    IF cell.t # "string" THEN cell
    ELSE CASE format = "lowercase" -> Str(toLowerCase(cell.s))
           [] format = "uppercase" -> Str(toUpperCase(cell.s))
           [] format = "title_case" -> Str(TitleCase(cell.s))
           [] format = "email" -> Str(trim(toLowerCase(cell.s)))
           [] format = "phone" -> IF Len(DigitsOnly(cell.s)) = 10
                                  THEN Str(PhoneFormat(DigitsOnly(cell.s)))
                                  ELSE cell
           [] OTHER -> cell

standardizeFormatInChunk(chunkData, t) ==
    MapColumn(chunkData, t.column, LAMBDA cell : StandardizeCell(cell, t.format))

\* new Date(cell): a number is a time in milliseconds, valid, and the
\* numbers of the model all fall on the first day of the epoch.  What a
\* string that is not in ISO format parses to is the engine's choice: a
\* string holding a digit is taken as a date, written as a token of the
\* string; a string holding none is no date.
DateIsValid(cell) == \/ cell.t = "number"
                     \/ cell.t = "string" /\ \E i \in DOMAIN cell.s : IsDigit(cell.s[i])

DateString(cell) == IF cell.t = "number" THEN Str(<<"1970-01-01">>)
                    ELSE Str(<<"date(">> \o cell.s \o <<")">>)

FixTypeCell(cell, targetType) ==
    IF IsEmptyCell(cell) THEN cell
    ELSE CASE targetType = "number" -> IF IsNumeric(cell) THEN NumberOf(cell) ELSE cell
           [] targetType = "date" -> IF DateIsValid(cell) THEN DateString(cell) ELSE cell
           [] targetType = "string" -> Str(StringOf(cell))
           [] OTHER -> cell

fixDataTypesInChunk(chunkData, t) ==
    MapColumn(chunkData, t.column, LAMBDA cell : FixTypeCell(cell, t.targetType))

TrimCell(cell) == IF cell.t = "string" THEN Str(CollapseWhitespace(trim(cell.s))) ELSE cell

trimWhitespaceInChunk(chunkData, t) == MapColumn(chunkData, t.column, TrimCell)

(***************************************************************************)
(* Chunk ids and the keys of processedData.                                *)
(*   `${sessionId}_${sheetName}_chunk_${chunkIndex}`                       *)
(*   `${chunkId}_normalized_${newTableName}`                               *)
(***************************************************************************)
ChunkId(sheetName, chunkIndex) == [sheet |-> sheetName, idx |-> chunkIndex]

ChunkKey(chunkId) == [chunk |-> chunkId, table |-> ""]

NormalizedKey(chunkId, newTableName) == [chunk |-> chunkId, table |-> newTableName]

\* `${chunkId}_${rowIndex + 1}`: a string cell; the sheet name is one token
\* of it.
ChunkRowId(chunkId, rowNumber) ==
    Str(<<chunkId.sheet, "_chunk_">> \o DecimalString(chunkId.idx)
            \o <<"_">> \o DecimalString(rowNumber))

(***************************************************************************)
(* normalizeDataInChunk: the main rows and the rows of the new table.      *)
(***************************************************************************)
\* mainRow.splice(idx, 1) with idx = -1 for a column that is not a header:
\* the last cell goes.  idx is 0 here for "not a header" and 1-based else.
Splice1(row, idx) ==
    LET at == IF idx = 0 THEN Len(row) ELSE idx
    IN IF at \in DOMAIN row
       THEN SubSeq(row, 1, at - 1) \o SubSeq(row, at + 1, Len(row))
       ELSE row

\* columnIndices.forEach((idx, i) => i === 0 ? mainRow[idx] = id : mainRow.splice(idx, 1))
\* mainRow[-1] = id sets no element of the array.
NormalizeMainRow(row, columnIndices, id) ==
    LET F[i \in 0..Len(columnIndices)] ==
            IF i = 0 THEN row
            ELSE IF i = 1
                 THEN IF columnIndices[1] = 0 THEN F[0]
                      ELSE SetCell(F[0], columnIndices[1], id)
                 ELSE Splice1(F[i - 1], columnIndices[i])
    IN F[Len(columnIndices)]

NormalizeIndices(chunkData, t) ==
    [i \in DOMAIN t.columns |-> IndexOf(chunkData.headers, t.columns[i])]

NormalizeMain(chunkId, chunkData, t) ==
    Payload(chunkData.headers,
            [r \in DOMAIN chunkData.rows |->
                NormalizeMainRow(chunkData.rows[r], NormalizeIndices(chunkData, t),
                                 ChunkRowId(chunkId, r))])

NormalizeTable(chunkId, chunkData, t) ==
    Payload(<<"ID">> \o t.columns,
            [r \in DOMAIN chunkData.rows |->
                <<ChunkRowId(chunkId, r)>>
                    \o [i \in DOMAIN t.columns |->
                            CellAt(chunkData.rows[r], NormalizeIndices(chunkData, t)[i])]])

(***************************************************************************)
(* splitMultiValueInChunk                                                  *)
(***************************************************************************)
DefaultDelimiters == {",", ";", "|"}

DelimitersOf(t) == IF t.delimiter = {} THEN DefaultDelimiters ELSE t.delimiter

\* cellValue.split(delimiterRegex)
SplitOn(s, delims) ==
    LET F[i \in 0..Len(s)] ==
            IF i = 0 THEN <<<<>>>>
            ELSE IF s[i] \in delims THEN Append(F[i - 1], <<>>)
                 ELSE [F[i - 1] EXCEPT ![Len(F[i - 1])] = Append(@, s[i])]
    IN F[Len(s)]

\* .map(v => v.trim()).filter(v => v)
SplitValues(s, delims) ==
    SelectSeq([i \in DOMAIN SplitOn(s, delims) |-> trim(SplitOn(s, delims)[i])],
              LAMBDA v : v # <<>>)

ExpandRow(row, columnIndex, delims) ==
    LET cellValue == CellAt(row, columnIndex)
    IN IF cellValue.t = "string" /\ \E i \in DOMAIN cellValue.s : cellValue.s[i] \in delims
       THEN LET values == SplitValues(cellValue.s, delims)
            IN [v \in DOMAIN values |-> SetCell(row, columnIndex, Str(values[v]))]
       ELSE <<row>>

\* Every column of the list expands the rows the chunk had on entry and
\* stores the result, so the payload left is the one of the last listed
\* column that is a header.
splitMultiValueInChunk(chunkData, t) ==
    LET dataRows == chunkData.rows
        expanded(column) ==
            Flatten([r \in DOMAIN dataRows |->
                        ExpandRow(dataRows[r], IndexOf(chunkData.headers, column),
                                  DelimitersOf(t))])
        F[i \in 0..Len(t.columns)] ==
            IF i = 0 THEN chunkData
            ELSE IF IndexOf(chunkData.headers, t.columns[i]) = 0 THEN F[i - 1]
                 ELSE Payload(chunkData.headers, expanded(t.columns[i]))
    IN F[Len(t.columns)]

(***************************************************************************)
(* Map<string, any[][]>: the entries in insertion order.                   *)
(***************************************************************************)
MapHas(m, k) == \E i \in DOMAIN m : m[i].key = k

MapGet(m, k) == m[CHOOSE i \in DOMAIN m : m[i].key = k].data

\* set() of a key the map holds keeps the key's place
MapSet(m, k, v) ==
    IF MapHas(m, k)
    THEN [m EXCEPT ![CHOOSE i \in DOMAIN m : m[i].key = k] = [key |-> k, data |-> v]]
    ELSE Append(m, [key |-> k, data |-> v])

MapDelete(m, k) == SelectSeq(m, LAMBDA e : e.key # k)

(***************************************************************************)
(* The source workbook: sheets in SheetNames order, each the header cells  *)
(* of row 0 ("" for a header cell the sheet does not hold) and the data    *)
(* rows 1..N, every row as wide as the header.                             *)
(***************************************************************************)
Sheet(name, headers, rows) == [name |-> name, headers |-> headers, rows |-> rows]

SheetNamed(wb, name) == wb[CHOOSE i \in DOMAIN wb : wb[i].name = name]

\* cell ? String(cell.v) : `Column_${col + 1}`
HeaderName(cellText, col) ==
    IF cellText # "" THEN cellText
    ELSE <<"Column_1", "Column_2", "Column_3", "Column_4">>[col]

(***************************************************************************)
(* parseExcelInChunks: the chunk metadata of every sheet, in creation      *)
(* order.                                                                  *)
(***************************************************************************)
\* A partition whose ranges run one row into the next chunk
SheetChunksOverlapping(sheet, size) ==
    LET sheetRows == Len(sheet.rows) + 1
        dataRows == sheetRows - 1
        numChunks == CeilDiv(dataRows, size)
    IN [k \in 1..numChunks |->
            LET chunkIndex == k - 1
                startRow == 1 + chunkIndex * size
                endRow == Min(startRow + size, sheetRows - 1)
            IN [chunkId |-> ChunkId(sheet.name, chunkIndex),
                startRow |-> startRow,
                endRow |-> endRow,
                totalRows |-> dataRows,
                sheetName |-> sheet.name,
                headers |-> [c \in DOMAIN sheet.headers |-> HeaderName(sheet.headers[c], c)],
                processed |-> FALSE]]

\* The metadata of chunk chunkIndex of a sheet
ChunkMetadataOf(sheet, size, chunkIndex) ==
    LET sheetRows == Len(sheet.rows) + 1
        dataRows == sheetRows - 1
        startRow == 1 + chunkIndex * size
        endRow == Min(startRow + size - 1, sheetRows - 1)
    IN [chunkId |-> ChunkId(sheet.name, chunkIndex),
        startRow |-> startRow,
        endRow |-> endRow,
        totalRows |-> dataRows,
        sheetName |-> sheet.name,
        headers |-> [c \in DOMAIN sheet.headers |-> HeaderName(sheet.headers[c], c)],
        processed |-> FALSE]

SheetChunks(sheet, size) ==
    LET dataRows == Len(sheet.rows)
        numChunks == CeilDiv(dataRows, size)
    IN [k \in 1..numChunks |-> ChunkMetadataOf(sheet, size, k - 1)]

parseExcelInChunks(wb, size) == Flatten([i \in DOMAIN wb |-> SheetChunks(wb[i], size)])

\* this.chunks.get(chunkId)
HasChunk(cs, chunkId) == \E i \in DOMAIN cs : cs[i].chunkId = chunkId

GetChunk(cs, chunkId) == cs[CHOOSE i \in DOMAIN cs : cs[i].chunkId = chunkId]

(***************************************************************************)
(* processChunk: reads the rows of the chunk's range from the worksheet    *)
(* and stores them under the chunk's id.                                   *)
(***************************************************************************)
ReadChunk(wb, meta) ==
    LET worksheet == SheetNamed(wb, meta.sheetName)
    IN Payload(meta.headers,
               [r \in 1..(meta.endRow - meta.startRow + 1) |->
                   [col \in DOMAIN meta.headers |->
                       LET row == worksheet.rows[meta.startRow + r - 1]
                       IN IF col \in DOMAIN row THEN row[col] ELSE Null]])

processChunkData(wb, cs, pd, chunkId) ==
    MapSet(pd, ChunkKey(chunkId), ReadChunk(wb, GetChunk(cs, chunkId)))

\* A processChunk that flags the chunk it loads and no other
processChunkMetaExclusive(cs, chunkId) ==
    [k \in DOMAIN cs |-> [cs[k] EXCEPT !.processed = (cs[k].chunkId = chunkId)]]

processChunkMeta(cs, chunkId) ==
    IF HasChunk(cs, chunkId)
    THEN [cs EXCEPT ![CHOOSE i \in DOMAIN cs : cs[i].chunkId = chunkId].processed = TRUE]
    ELSE cs

(***************************************************************************)
(* clearProcessedChunk                                                     *)
(***************************************************************************)
\* An eviction that drops every payload
clearEveryChunk(pd, chunkId) == <<>>

clearProcessedChunk(pd, chunkId) == MapDelete(pd, ChunkKey(chunkId))

(***************************************************************************)
(* applyTransformationToChunk                                              *)
(***************************************************************************)
\* chunkData && chunkData.length >= 2
HasDataRows(pd, chunkId) ==
    MapHas(pd, ChunkKey(chunkId)) /\ MapGet(pd, ChunkKey(chunkId)).rows # <<>>

\* columns.map / columns.forEach of a descriptor that carries no columns
TransformationThrows(t) ==
    t.type \in {"normalize_data", "split_multi_value"} /\ ~t.hasColumns

\* The switch on transformation.type; a type it does not list changes
\* nothing.
ApplySwitch(pd, chunkId, t) ==
    LET chunkData == MapGet(pd, ChunkKey(chunkId))
        key == ChunkKey(chunkId)
    IN CASE t.type = "fill_missing" -> MapSet(pd, key, fillMissingValuesInChunk(chunkData, t))
         [] t.type = "remove_duplicates" -> MapSet(pd, key, removeDuplicatesInChunk(chunkData, t))
         [] t.type = "standardize_format" -> MapSet(pd, key, standardizeFormatInChunk(chunkData, t))
         [] t.type = "fix_data_types" -> MapSet(pd, key, fixDataTypesInChunk(chunkData, t))
         [] t.type = "trim_whitespace" -> MapSet(pd, key, trimWhitespaceInChunk(chunkData, t))
         [] t.type = "normalize_data" ->
                MapSet(MapSet(pd, key, NormalizeMain(chunkId, chunkData, t)),
                       NormalizedKey(chunkId, t.newTableName),
                       NormalizeTable(chunkId, chunkData, t))
         [] t.type = "split_multi_value" -> MapSet(pd, key, splitMultiValueInChunk(chunkData, t))
         [] OTHER -> pd

LogEntry(chunkId, t) == [chunkId |-> chunkId, transformation |-> t, status |-> "completed"]

(***************************************************************************)
(* generateCleanedExcelFromChunks                                          *)
(***************************************************************************)
\* The sheets put together from the chunks: a chunk that is not flagged
\* processed or holds no payload adds nothing.
ExportedChunks(cs, pd) ==
    SelectSeq(cs, LAMBDA m : m.processed /\ MapHas(pd, ChunkKey(m.chunkId)))

SheetDataNames(cs, pd) ==
    DistinctInOrder([i \in DOMAIN ExportedChunks(cs, pd) |-> ExportedChunks(cs, pd)[i].sheetName])

SheetData(cs, pd, sheetName) ==
    LET mine == SelectSeq(ExportedChunks(cs, pd), LAMBDA m : m.sheetName = sheetName)
    IN Payload(mine[1].headers,
               Flatten([i \in DOMAIN mine |-> MapGet(pd, ChunkKey(mine[i].chunkId)).rows]))

\* aoa_to_sheet writes no cell for null or undefined, and the sheet read
\* back has every row as wide as its widest row.
AoaToSheet(data) ==
    LET width == LET ws == {Len(data.headers)} \cup {Len(data.rows[r]) : r \in DOMAIN data.rows}
                 IN CHOOSE w \in ws : \A v \in ws : v <= w
    IN Payload(data.headers,
               [r \in DOMAIN data.rows |->
                   [c \in 1..width |-> IF c \in DOMAIN data.rows[r]
                                        THEN JsonCell(data.rows[r][c]) ELSE Null]])

NormalizedEntries(pd) == SelectSeq(pd, LAMBDA e : e.key.table # "")

ExportSheets(cs, pd) ==
    [i \in DOMAIN SheetDataNames(cs, pd) |->
        [name |-> SheetDataNames(cs, pd)[i],
         data |-> AoaToSheet(SheetData(cs, pd, SheetDataNames(cs, pd)[i]))]]
    \o [i \in DOMAIN NormalizedEntries(pd) |->
        [name |-> NormalizedEntries(pd)[i].key.table,
         data |-> AoaToSheet(NormalizedEntries(pd)[i].data)]]

\* book_append_sheet refuses a name the workbook holds; XLSX.write refuses
\* a workbook without sheets.
ExportThrows(cs, pd) ==
    LET sheets == ExportSheets(cs, pd)
    IN \/ sheets = <<>>
       \/ \E i, j \in DOMAIN sheets : i # j /\ sheets[i].name = sheets[j].name

generateCleanedExcelFromChunks(cs, pd) ==
    IF ExportThrows(cs, pd) THEN [status |-> "error", sheets |-> <<>>]
    ELSE [status |-> "ok", sheets |-> ExportSheets(cs, pd)]

(***************************************************************************)
(* analyzeChunkQuality.  An issue is {type, severity, sheet, column,       *)
(* count, examples}; column is "" for an issue without one, and the        *)
(* description text is left out.                                           *)
(***************************************************************************)
Issue(type, severity, sheet, column, count, examples) ==
    [type |-> type, severity |-> severity, sheet |-> sheet, column |-> column,
     count |-> count, examples |-> examples]

CountOf(s, P(_)) == Len(SelectSeq(s, P))

StringsOf(cells) == [i \in DOMAIN cells |-> StringOf(cells[i])]

\* cell === null || cell === undefined || cell === "" ||
\*   (typeof cell === "string" && cell.trim() === "")
IsMissingCell(c) == IsEmptyCell(c) \/ (c.t = "string" /\ trim(c.s) = <<>>)

\* cell !== cell.trim() || cell.includes("  ")
HasWhitespaceIssue(c) ==
    \/ c.s # trim(c.s)
    \/ \E i \in 1..(Len(c.s) - 1) : IsSpace(c.s[i]) /\ IsSpace(c.s[i + 1])

\* typeof cell === "string" && /[,;|]/.test(cell)
HasDelimiter(c) == c.t = "string" /\ \E i \in DOMAIN c.s : c.s[i] \in DefaultDelimiters

ColumnIssues(sheetName, columnName, columnData) ==
    LET n == Len(columnData)
        missingCount == CountOf(columnData, IsMissingCell)
        nonEmptyData == SelectSeq(columnData, LAMBDA c : ~IsEmptyCell(c))
        types == {nonEmptyData[i].t : i \in DOMAIN nonEmptyData}
        stringData == SelectSeq(columnData, LAMBDA c : c.t = "string" /\ Len(c.s) > 0)
        whitespaceIssues == SelectSeq(stringData, HasWhitespaceIssue)
        multiValue == SelectSeq(columnData, HasDelimiter)
    IN (IF missingCount > 0
        THEN <<Issue("missing_values",
                     IF missingCount * 10 > n * 3 THEN "high"
                     ELSE IF missingCount * 10 > n THEN "medium" ELSE "low",
                     sheetName, columnName, missingCount,
                     StringsOf(Slice(nonEmptyData, 0, 3)))>>
        ELSE <<>>)
       \o (IF Cardinality(types) > 1
           THEN <<Issue("data_type_mismatch", "medium", sheetName, columnName,
                        Len(nonEmptyData), StringsOf(Slice(nonEmptyData, 0, 3)))>>
           ELSE <<>>)
       \o (IF Len(whitespaceIssues) > 0
           THEN <<Issue("whitespace", "low", sheetName, columnName,
                        Len(whitespaceIssues), StringsOf(Slice(whitespaceIssues, 0, 3)))>>
           ELSE <<>>)
       \o (IF Len(multiValue) > 0
           THEN <<Issue("inconsistent_format", "medium", sheetName, columnName,
                        Len(multiValue), StringsOf(Slice(multiValue, 0, 3)))>>
           ELSE <<>>)

DuplicateIssues(sheetName, dataRows) ==
    LET uniqueRows == {JSONstringify(dataRows[i]) : i \in DOMAIN dataRows}
        duplicateCount == Len(dataRows) - Cardinality(uniqueRows)
    IN IF duplicateCount > 0
       THEN <<Issue("duplicates",
                    IF duplicateCount * 10 > Len(dataRows) THEN "high" ELSE "medium",
                    sheetName, "", duplicateCount, <<>>)>>
       ELSE <<>>

analyzeChunkQuality(cs, pd, chunkId) ==
    IF ~HasDataRows(pd, chunkId) THEN <<>>
    ELSE LET chunkData == MapGet(pd, ChunkKey(chunkId))
             sheetName == GetChunk(cs, chunkId).sheetName
         IN Flatten([c \in DOMAIN chunkData.headers |->
                        ColumnIssues(sheetName, chunkData.headers[c],
                                     Column(chunkData.rows, c))])
            \o DuplicateIssues(sheetName, chunkData.rows)

(***************************************************************************)
(* aggregateIssuesAcrossChunks                                             *)
(***************************************************************************)
\* `${issue.type}_${issue.sheet}_${issue.column || "global"}`
IssueKey(issue) ==
    issue.type \o "_" \o issue.sheet \o "_"
        \o (IF issue.column = "" THEN "global" ELSE issue.column)

\* .sort((a, b) => severityOrder[b.severity] - severityOrder[a.severity]),
\* a stable sort
SortBySeverity(issues) ==
    SelectSeq(issues, LAMBDA x : x.severity = "high")
        \o SelectSeq(issues, LAMBDA x : x.severity = "medium")
        \o SelectSeq(issues, LAMBDA x : x.severity = "low")

MergeIssue(existing, issue) ==
    [existing EXCEPT !.count = @ + issue.count,
                     !.examples = IF issue.type = "duplicates" THEN @
                                  ELSE Slice(@ \o issue.examples, 0, 5)]

RECURSIVE IssueMap(_)
IssueMap(allIssues) ==
    IF allIssues = <<>> THEN <<>>
    ELSE LET before == IssueMap(SubSeq(allIssues, 1, Len(allIssues) - 1))
             issue == allIssues[Len(allIssues)]
         IN IF \E i \in DOMAIN before : IssueKey(before[i]) = IssueKey(issue)
            THEN [i \in DOMAIN before |->
                     IF IssueKey(before[i]) = IssueKey(issue)
                     THEN MergeIssue(before[i], issue) ELSE before[i]]
            ELSE Append(before, issue)

aggregateIssuesAcrossChunks(allIssues) == SortBySeverity(IssueMap(allIssues))

(***************************************************************************)
(* Recommendations (ChunkedGeminiClient).                                  *)
(***************************************************************************)
Recommendation(id, step, actionType, targetColumn, targetSheet, priority, category, confidence, transformation, affectedChunks, canProcessInParallel) ==
    [id |-> id, step |-> step, actionType |-> actionType, targetColumn |-> targetColumn,
     targetSheet |-> targetSheet, priority |-> priority, category |-> category,
     confidence |-> confidence, transformation |-> transformation,
     affectedChunks |-> affectedChunks, canProcessInParallel |-> canProcessInParallel]

RecId(kind, sheet, n) == [kind |-> kind, sheet |-> sheet, n |-> n]

ChunkIdsOf(cs) == [i \in DOMAIN cs |-> cs[i].chunkId]

ChunksOfSheet(cs, sheetName) == SelectSeq(cs, LAMBDA m : m.sheetName = sheetName)

mapIssueToActionType(issueType) ==
    CASE issueType = "missing_values" -> "fill_missing"
      [] issueType = "duplicates" -> "remove_duplicates"
      [] issueType = "whitespace" -> "trim_whitespace"
      [] issueType = "inconsistent_format" -> "standardize_format"
      [] issueType = "data_type_mismatch" -> "fix_data_types"
      [] OTHER -> "fix_data_types"

generateFallbackTransformation(issue) ==
    CASE issue.type = "missing_values" ->
            [Transformation("fill_missing", issue.sheet) EXCEPT
                !.column = issue.column, !.method = "smart"]
      [] issue.type = "duplicates" -> Transformation("remove_duplicates", issue.sheet)
      [] OTHER -> [Transformation("fix_data_types", issue.sheet) EXCEPT !.column = issue.column]

generateFallbackRecommendations(issues, cs) ==
    [index \in DOMAIN Slice(issues, 0, 8) |->
        LET issue == issues[index]
        IN Recommendation(RecId("chunked_fallback", "", index), index,
                          mapIssueToActionType(issue.type), issue.column, issue.sheet,
                          issue.severity, "cleaning", 70,
                          generateFallbackTransformation(issue),
                          ChunkIdsOf(ChunksOfSheet(cs, issue.sheet)), TRUE)]

\* h.toLowerCase().includes("category" | "type" | "status"), over the header
\* names of the model
IsLookupColumnName(h) == h \in {"Status", "Category", "Type"}

CrossChunkRecommendations(cs, sheetName) ==
    LET sheetChunks == ChunksOfSheet(cs, sheetName)
        potentialLookupColumns == SelectSeq(sheetChunks[1].headers, IsLookupColumnName)
    IN IF Len(sheetChunks) <= 1 THEN <<>>
       ELSE <<Recommendation(
                RecId("cross_chunk_dedup", sheetName, 0), 100,
                "remove_duplicates_global", "", sheetName, "high", "optimization", 90,
                [Transformation("remove_duplicates_global", sheetName) EXCEPT
                    !.requiresCrossChunkCoordination = TRUE],
                ChunkIdsOf(sheetChunks), FALSE)>>
            \o (IF Len(potentialLookupColumns) > 0
                THEN <<Recommendation(
                        RecId("cross_chunk_normalize", sheetName, 0), 101,
                        "create_lookup_table_global", potentialLookupColumns[1], sheetName,
                        "medium", "normalization", 80,
                        [Transformation("create_lookup_table_global", sheetName) EXCEPT
                            !.hasColumns = TRUE,
                            !.columns = potentialLookupColumns,
                            !.requiresCrossChunkCoordination = TRUE],
                        ChunkIdsOf(sheetChunks), TRUE)>>
                ELSE <<>>)

analyzeCrossChunkOpportunities(cs) ==
    LET sheetNames == DistinctInOrder([i \in DOMAIN cs |-> cs[i].sheetName])
    IN Flatten([i \in DOMAIN sheetNames |-> CrossChunkRecommendations(cs, sheetNames[i])])

determineAffectedChunks(rec, cs) ==
    IF rec.targetSheet # "" THEN ChunkIdsOf(ChunksOfSheet(cs, rec.targetSheet))
    ELSE IF rec.targetColumn # ""
    THEN ChunkIdsOf(SelectSeq(cs, LAMBDA m : rec.targetColumn \in Range(m.headers)))
    ELSE ChunkIdsOf(cs)

\* What the model answers for one batch of issues: actionType, targetColumn,
\* targetSheet, priority, category, confidence, transformation and
\* canProcessInParallel of every recommendation.
AiItem(actionType, targetColumn, targetSheet, transformation, canProcessInParallel) ==
    [actionType |-> actionType, targetColumn |-> targetColumn, targetSheet |-> targetSheet,
     priority |-> "medium", category |-> "cleaning", confidence |-> 75,
     transformation |-> transformation, canProcessInParallel |-> canProcessInParallel]

\* processBatch: the recommendations made of the answer for batch batchIndex
processBatch(answer, cs, batchIndex) ==
    [index \in DOMAIN answer |->
        LET rec == answer[index]
        IN Recommendation(RecId("chunked_ai", "", batchIndex * 100 + index),
                          batchIndex * 5 + index, rec.actionType, rec.targetColumn,
                          rec.targetSheet, rec.priority, rec.category, rec.confidence,
                          rec.transformation, determineAffectedChunks(rec, cs),
                          rec.canProcessInParallel)]

PriorityOrder(p) == CASE p = "critical" -> 4 [] p = "high" -> 3 [] p = "medium" -> 2 [] OTHER -> 1

CategoryOrder(c) == CASE c = "normalization" -> 4 [] c = "validation" -> 3
                      [] c = "cleaning" -> 2 [] OTHER -> 1

\* The comparator of prioritizeAndOptimizeRecommendations: a comes before b
RecBefore(a, b) ==
    IF a.canProcessInParallel # b.canProcessInParallel THEN a.canProcessInParallel
    ELSE IF PriorityOrder(a.priority) # PriorityOrder(b.priority)
    THEN PriorityOrder(a.priority) > PriorityOrder(b.priority)
    ELSE IF CategoryOrder(a.category) # CategoryOrder(b.category)
    THEN CategoryOrder(a.category) > CategoryOrder(b.category)
    ELSE a.confidence > b.confidence

\* A stable sort: an element goes behind every element it does not come
\* before.
RECURSIVE StableSort(_)
StableSort(recs) ==
    IF recs = <<>> THEN <<>>
    ELSE LET init == StableSort(SubSeq(recs, 1, Len(recs) - 1))
             x == recs[Len(recs)]
             at == Cardinality({i \in DOMAIN init :
                                   \A j \in 1..i : ~RecBefore(x, init[j])})
         IN SubSeq(init, 1, at) \o <<x>> \o SubSeq(init, at + 1, Len(init))

prioritizeAndOptimizeRecommendations(recs) == Slice(StableSort(recs), 0, 12)

\* generateChunkedRecommendations: without a model the fallback; with one,
\* the answers for the batches of 3 issues (the first batch gets `answer`,
\* the later ones an empty answer) and the cross-chunk recommendations.
generateChunkedRecommendations(hasModel, answer, aggregatedIssues, cs) ==
    IF ~hasModel THEN generateFallbackRecommendations(aggregatedIssues, cs)
    ELSE prioritizeAndOptimizeRecommendations(
            processBatch(answer, cs, 0) \o analyzeCrossChunkOpportunities(cs))

(***************************************************************************)
(* The workbooks of the model.                                             *)
(***************************************************************************)
\* A 10-row, 3-column sheet with 2 empty cells in Age and 1 exact duplicate
\* row (row 4 repeats row 1).
SmallFile ==
    <<Sheet("People", <<"Name", "Age", "City">>,
        << <<Str(<<"a">>), Num(30), Str(<<"r">>)>>,
           <<Str(<<"b">>), Null,    Str(<<"o">>)>>,
           <<Str(<<"c">>), Num(25), Str(<<"r">>)>>,
           <<Str(<<"a">>), Num(30), Str(<<"r">>)>>,
           <<Str(<<"d">>), Null,    Str(<<"o">>)>>,
           <<Str(<<"e">>), Num(41), Str(<<"p">>)>>,
           <<Str(<<"f">>), Num(33), Str(<<"o">>)>>,
           <<Str(<<"g">>), Num(25), Str(<<"p">>)>>,
           <<Str(<<"h">>), Num(52), Str(<<"r">>)>>,
           <<Str(<<"i">>), Num(38), Str(<<"o">>)>> >>)>>

\* A sheet with whitespace, multi-value, mixed-type and upper-case cells, an
\* empty header cell, and rows that repeat (row 5 repeats row 1, row 6
\* repeats row 2).
MixedFile ==
    <<Sheet("Data", <<"Tags", "Status", "">>,
        << <<Str(<<" ", "a">>),      Str(<<"A">>), Num(1)>>,
           <<Str(<<"a", ",", "b">>), Null,         Num(2)>>,
           <<Str(<<"1">>),           Str(<<"b">>), Null>>,
           <<Num(2),                 Str(<<"A", " ", " ", "b">>), Num(3)>>,
           <<Str(<<" ", "a">>),      Str(<<"A">>), Num(1)>>,
           <<Str(<<"a", ",", "b">>), Null,         Num(2)>> >>)>>

\* Three sheets; the third holds only its header row.
TwoSheets ==
    <<Sheet("S1", <<"Id", "Type">>,
        << <<Num(1), Str(<<"a">>)>>,
           <<Num(2), Null>>,
           <<Num(1), Str(<<"a">>)>> >>),
      Sheet("S2", <<"Id">>,
        << <<Num(7)>>, <<Null>>, <<Num(9)>> >>),
      Sheet("S3", <<"Id">>, <<>>)>>

\* A one-sheet workbook of r data rows; the Id is the row number, the Status
\* repeats with period 4 and is missing in every third row.
FamilyFile(r) ==
    <<Sheet("F", <<"Id", "Status">>,
        [i \in 1..r |-> <<Num(i), IF i % 3 = 0 THEN Null
                                   ELSE Str(<<Digits[(i % 4) + 1]>>)>>])>>

SheetNames == <<"A", "B", "C", "D", "E", "F", "G", "H", "I", "J", "K", "L", "M">>

\* A workbook of n sheets of one column and one data row; the cell of the
\* first sheet starts with a blank.
ManySheets(n) ==
    [k \in 1..n |-> Sheet(SheetNames[k], <<"V">>,
                          << <<IF k = 1 THEN Str(<<" ", "x">>) ELSE Str(<<"x">>)>> >>)]

\* Two sheets whose names and column names hold the character "_": column
\* a_b of sheet S and column b of sheet S_a, each with missing values.
UnderscoreFile ==
    <<Sheet("S", <<"a_b">>, << <<Null>>, <<Num(1)>> >>),
      Sheet("S_a", <<"b">>, << <<Null>>, <<Null>>, <<Num(2)>> >>)>>

Workbooks ==
    {SmallFile, MixedFile, TwoSheets, UnderscoreFile, ManySheets(MaxSheets)}
        \cup {FamilyFile(r) : r \in 0..MaxFamilyRows}

ChunkSizes == (1..MaxChunkSize) \cup {DefaultChunkSize}

\* The sessions of the model: a stored workbook and the chunk size of its
\* analyze request.
Sessions ==
    ({SmallFile} \X {3, DefaultChunkSize})
        \cup ({MixedFile} \X {2})
        \cup ({TwoSheets} \X {1, DefaultChunkSize})
        \cup ({FamilyFile(MaxFamilyRows)} \X {1, MaxChunkSize})
        \cup ({FamilyFile(2)} \X {1})
        \cup ({ManySheets(MaxSheets)} \X {DefaultChunkSize})

(***************************************************************************)
(* The answers of the model (the external recommendation generator) for a  *)
(* workbook.                                                               *)
(***************************************************************************)
AiAnswers(wb) ==
    IF wb = SmallFile
    THEN {<<AiItem("fill_missing", "Age", "People",
                   [Transformation("fill_missing", "People") EXCEPT
                       !.column = "Age", !.method = "median"], TRUE),
            AiItem("remove_duplicates", "", "People",
                   Transformation("remove_duplicates", "People"), TRUE)>>}
    ELSE IF wb = MixedFile
    THEN {<<AiItem("trim_whitespace", "Tags", "Data",
                   [Transformation("trim_whitespace", "Data") EXCEPT !.column = "Tags"], TRUE)>>,
          <<AiItem("standardize_format", "Status", "Data",
                   [Transformation("standardize_format", "Data") EXCEPT
                       !.column = "Status", !.format = "lowercase"], TRUE)>>,
          <<AiItem("fix_data_types", "Tags", "Data",
                   [Transformation("fix_data_types", "Data") EXCEPT
                       !.column = "Tags", !.targetType = "number"], FALSE)>>,
          <<AiItem("split_multi_value", "Tags", "Data",
                   [Transformation("split_multi_value", "Data") EXCEPT
                       !.hasColumns = TRUE, !.columns = <<"Tags">>], TRUE)>>,
          <<AiItem("normalize_data", "Status", "Data",
                   [Transformation("normalize_data", "Data") EXCEPT
                       !.hasColumns = TRUE, !.columns = <<"Status">>,
                       !.newTableName = "Statuses"], TRUE)>>}
    ELSE IF wb = TwoSheets
    THEN {<<AiItem("fill_missing", "Id", "S2",
                   [Transformation("fill_missing", "S2") EXCEPT
                       !.column = "Id", !.method = "mean"], TRUE),
            AiItem("remove_duplicates", "", "S1",
                   Transformation("remove_duplicates", "S1"), TRUE)>>,
          <<AiItem("standardize_format", "Type", "S2",
                   [Transformation("standardize_format", "S2") EXCEPT
                       !.column = "Type", !.format = "uppercase"], TRUE)>>,
          <<AiItem("fill_missing", "Id", "",
                   [Transformation("fill_missing", "S2") EXCEPT
                       !.column = "Id", !.method = "mean"], TRUE)>>}
    ELSE IF wb = ManySheets(MaxSheets)
    THEN {<<AiItem("trim_whitespace", "V", "",
                   [Transformation("trim_whitespace", "") EXCEPT !.column = "V"], TRUE)>>}
    ELSE {<<AiItem("fill_missing", "Status", "F",
                   [Transformation("fill_missing", "F") EXCEPT
                       !.column = "Status", !.method = "mode"], TRUE)>>,
          <<AiItem("normalize_data", "Status", "F",
                   [Transformation("normalize_data", "F") EXCEPT
                       !.newTableName = "Statuses"], TRUE)>>,
          <<AiItem("split_multi_value", "Status", "F",
                   Transformation("split_multi_value", "F"), FALSE)>>}

(***************************************************************************)
(* fromStorage: the workbook the processor is built over.  A stored file   *)
(* that cannot be retrieved is NoFile; the processor is then built over a  *)
(* fallback workbook.                                                      *)
(***************************************************************************)
NoFile == <<>>

\* aoa_to_sheet([["Error", "Message"], ["File Not Found", `Original file
\* ${fileName} could not be retrieved`]]) appended under the name "Error"
FallbackWorkbook ==
    <<Sheet("Error", <<"Error", "Message">>,
        << <<Str(<<"File Not Found">>),
             Str(<<"Original file could not be retrieved">>)>> >>)>>

\* A fromStorage that hands on what the storage gave
fromStorageUnchecked(file) == file

fromStorage(file) == IF file = NoFile THEN FallbackWorkbook ELSE file

(***************************************************************************)
(* State.                                                                  *)
(***************************************************************************)
VARIABLES
    workbook,             \* the stored file of the session
    chunkSize,            \* the chunkSize of the analyze request
    hasModel,             \* the Gemini model is configured
    aiAnswer,             \* what the model answers for the first issue batch
    chunks,               \* ChunkedExcelProcessor.chunks
    processedData,        \* ChunkedExcelProcessor.processedData
    transformationLog,    \* ChunkedExcelProcessor.transformationLog
    processorCached,      \* chunkedProcessorCache holds the processor
    recommendationCache,  \* chunkedRecommendationCache.get(sessionId) || []
    cleaningActions,      \* the cleaning_actions rows of the session
    analysisDone,         \* the analyze request of the session has returned
    req,                  \* the request in progress, or the last one
    exported,             \* the answer of the last download request
    accepts,              \* the apply requests made
    second                \* a second accept request, handled concurrently with req

vars == <<workbook, chunkSize, hasModel, aiAnswer, chunks, processedData,
          transformationLog, processorCached, recommendationCache, cleaningActions,
          analysisDone, req, exported, accepts, second>>

inputVars == <<workbook, chunkSize, hasModel, aiAnswer>>

NoRecommendation ==
    Recommendation(RecId("", "", 0), 0, "", "", "", "", "", 0, Transformation("", ""), <<>>, FALSE)

\* req.kind: "none", "analyze", "apply", "unapplied", "skip", "download",
\*           "recreate", "restart"
\* req.state: "running", "ok", "error"
\* req.ops[j], the operation on chunkIds[j]:
\*    "pending", "loaded", "mutated", "done", "failed"
NoRequest ==
    [kind |-> "none", state |-> "ok", rec |-> NoRecommendation, chunkIds |-> <<>>,
     parallel |-> FALSE, i |-> 0, ops |-> <<>>, allIssues |-> <<>>,
     processedChunks |-> 0, before |-> <<>>, actions |-> <<>>, concurrent |-> FALSE]

NoExport == [status |-> "none", sheets |-> <<>>]

\* Nothing has been requested for the session yet.
NothingRequested ==
    /\ chunks = <<>>
    /\ processedData = <<>>
    /\ transformationLog = <<>>
    /\ processorCached = FALSE
    /\ recommendationCache = <<>>
    /\ cleaningActions = <<>>
    /\ analysisDone = FALSE
    /\ req = NoRequest
    /\ exported = NoExport
    /\ accepts = 0
    /\ second = NoRequest

Init ==
    /\ \E session \in Sessions : workbook = session[1] /\ chunkSize = session[2]
    /\ hasModel \in BOOLEAN
    /\ aiAnswer \in (IF hasModel THEN AiAnswers(workbook) ELSE {<<>>})
    /\ NothingRequested

\* The sessions of every workbook and chunk size, analysed without a model.
AnalysisInit ==
    /\ workbook \in Workbooks
    /\ chunkSize \in ChunkSizes
    /\ hasModel = FALSE
    /\ aiAnswer = <<>>
    /\ NothingRequested

(***************************************************************************)
(* Operations of a request on several chunks, one after the other.         *)
(***************************************************************************)
RECURSIVE ProcessChunks(_, _, _, _)
ProcessChunks(wb, cs, pd, ids) ==
    IF ids = <<>> THEN pd
    ELSE ProcessChunks(wb, cs, processChunkData(wb, cs, pd, Head(ids)), Tail(ids))

RECURSIVE MarkProcessed(_, _)
MarkProcessed(cs, ids) ==
    IF ids = <<>> THEN cs ELSE MarkProcessed(processChunkMeta(cs, Head(ids)), Tail(ids))

RECURSIVE ClearChunks(_, _)
ClearChunks(pd, ids) ==
    IF ids = <<>> THEN pd ELSE ClearChunks(clearProcessedChunk(pd, Head(ids)), Tail(ids))

\* The batch of the loop at index i: list.slice(i, i + batchSize)
BatchOf(list, i, batchSize) == Slice(list, i, i + batchSize)

\* The batch of a request is in progress until every operation of it has
\* ended.
OpEnded(o) == o \in {"done", "failed"}

(***************************************************************************)
(* POST analyze-chunked                                                    *)
(***************************************************************************)
AnalyzeStart ==
    /\ ~analysisDone
    /\ req.kind = "none"
    /\ chunks' = parseExcelInChunks(fromStorage(workbook), chunkSize)
    /\ processedData' = <<>>
    /\ transformationLog' = <<>>
    /\ req' = [NoRequest EXCEPT !.kind = "analyze", !.state = "running"]
    /\ UNCHANGED <<inputVars, second, processorCached, recommendationCache, cleaningActions,
                   analysisDone, exported, accepts>>

\* The eviction of the analysis loop: the chunks of the batch just
\* processed are cleared once more than two batches have been processed.
AnalyzeEvict(pd, batch, processedChunks) ==
    IF processedChunks > AnalyzeBatchSize * 2 THEN ClearChunks(pd, batch) ELSE pd

\* One iteration of the batch loop.
AnalyzeBatch ==
    /\ req.kind = "analyze"
    /\ req.state = "running"
    /\ req.i < Len(chunks)
    /\ LET chunkBatch == BatchOf(ChunkIdsOf(chunks), req.i, AnalyzeBatchSize)
           cs1 == MarkProcessed(chunks, chunkBatch)
           pd1 == ProcessChunks(workbook, chunks, processedData, chunkBatch)
           batchResults == Flatten([k \in DOMAIN chunkBatch |->
                                       analyzeChunkQuality(cs1, pd1, chunkBatch[k])])
           processed == req.processedChunks + Len(chunkBatch)
       IN /\ chunks' = cs1
          /\ processedData' = AnalyzeEvict(pd1, chunkBatch, processed)
          /\ req' = [req EXCEPT !.i = @ + AnalyzeBatchSize,
                                !.allIssues = @ \o batchResults,
                                !.processedChunks = processed]
    /\ UNCHANGED <<inputVars, second, transformationLog, processorCached, recommendationCache,
                   cleaningActions, analysisDone, exported, accepts>>

\* A cleaning_actions row of a recommendation
ActionRow(rec, index) ==
    [step_number |-> index, recommendation_id |-> rec.id, action_type |-> rec.actionType,
     target_column |-> rec.targetColumn, target_sheet |-> rec.targetSheet,
     priority |-> rec.priority, transformation_data |-> rec.transformation,
     user_decision |-> "pending"]

\* After the loop: without issues the request returns and caches nothing;
\* with issues the recommendations are stored and the processor and the
\* recommendations are cached.
AnalyzeFinish ==
    /\ req.kind = "analyze"
    /\ req.state = "running"
    /\ req.i >= Len(chunks)
    /\ IF req.allIssues = <<>>
       THEN UNCHANGED <<processorCached, recommendationCache, cleaningActions>>
       ELSE LET recommendations ==
                    generateChunkedRecommendations(
                        hasModel, aiAnswer, aggregateIssuesAcrossChunks(req.allIssues), chunks)
            IN /\ cleaningActions' = [k \in DOMAIN recommendations |->
                                         ActionRow(recommendations[k], k)]
               /\ processorCached' = TRUE
               /\ recommendationCache' = recommendations
    /\ analysisDone' = TRUE
    /\ req' = [req EXCEPT !.state = "ok", !.allIssues = <<>>]
    /\ UNCHANGED <<inputVars, second, chunks, processedData, transformationLog, exported, accepts>>

(***************************************************************************)
(* POST apply-chunked-recommendation                                       *)
(***************************************************************************)
\* A request can start when the previous one has returned and every chunk
\* operation it started has ended.
BatchWidth(r) == IF r.parallel THEN ApplyBatchSize ELSE 1

\* A batch that leaves out its last chunk
CurrentBatchShort(r) ==
    {j \in DOMAIN r.ops : r.i < j /\ j <= r.i + Max(1, BatchWidth(r) - 1)}

CurrentBatch(r) == {j \in DOMAIN r.ops : r.i < j /\ j <= r.i + BatchWidth(r)}

\* A request that lets every handler run
TurnAlwaysFree(r) == TRUE

\* The request r is not in the middle of a run of chunk operations.  The
\* loop of an accept awaits only the processor's in-memory methods, so from
\* its first operation to the end of its last one no other handler gets a
\* turn.
TurnFree(r) ==
    /\ r.state # "running"
    /\ \A j \in CurrentBatch(r) : OpEnded(r.ops[j])

Idle == TurnFree(req) /\ TurnFree(second)

\* The recommendations of a cleaning_actions reload
FromDatabase(rows) ==
    [k \in DOMAIN rows |->
        Recommendation(rows[k].recommendation_id, rows[k].step_number, rows[k].action_type,
                       rows[k].target_column, rows[k].target_sheet, rows[k].priority,
                       "", 0, rows[k].transformation_data, <<>>, TRUE)]

\* The recommendations the request works with: the cached ones, or the rows
\* of the database when the cache is empty.
RequestRecommendations ==
    IF Len(recommendationCache) = 0 THEN FromDatabase(cleaningActions)
    ELSE recommendationCache

\* recommendations.find(r => r.id === recommendationId)
FindRecommendation(recs, recommendationId) ==
    recs[CHOOSE k \in DOMAIN recs :
            /\ recs[k].id = recommendationId
            /\ \A j \in 1..(k - 1) : recs[j].id # recommendationId]

chunksToProcess(recommendation, allChunks) ==
    IF Len(recommendation.affectedChunks) > 0
    THEN ChunkIdsOf(SelectSeq(allChunks,
                              LAMBDA m : m.chunkId \in Range(recommendation.affectedChunks)))
    ELSE ChunkIdsOf(SelectSeq(allChunks,
                              LAMBDA m : m.sheetName = recommendation.targetSheet))

\* The branch of the accept: batches of chunks in parallel, or one chunk at
\* a time.
UseParallel(recommendation, toProcess) ==
    recommendation.canProcessInParallel /\ Len(toProcess) > 1

\* The update of the cleaning_actions row of the recommendation's step
UpdateDecision(rows, recommendation, decision) ==
    [k \in DOMAIN rows |->
        IF rows[k].step_number = recommendation.step
        THEN [rows[k] EXCEPT !.user_decision = decision]
        ELSE rows[k]]

\* A request to accept a recommendation while the processor is cached: the
\* chunks to process are chosen and the first batch starts.
ApplyStart ==
    /\ analysisDone
    /\ Idle
    /\ accepts < MaxAccepts
    /\ processorCached
    /\ LET recommendations == RequestRecommendations
       IN /\ Len(recommendations) > 0
          /\ \E k \in DOMAIN recommendations :
                LET recommendation == FindRecommendation(recommendations,
                                                         recommendations[k].id)
                    toProcess == chunksToProcess(recommendation, chunks)
                IN req' = [NoRequest EXCEPT
                              !.kind = "apply", !.state = "running",
                              !.rec = recommendation,
                              !.chunkIds = toProcess,
                              !.parallel = UseParallel(recommendation, toProcess),
                              !.ops = [j \in DOMAIN toProcess |-> "pending"],
                              !.before = processedData]
          /\ recommendationCache' = recommendations
    /\ accepts' = accepts + 1
    /\ UNCHANGED <<inputVars, second, chunks, processedData, transformationLog, processorCached,
                   cleaningActions, analysisDone, exported>>

\* processor.processChunk(chunk.chunkId) of chunk operation j
OpLoad(j) ==
    /\ req.kind = "apply"
    /\ j \in CurrentBatch(req)
    /\ req.ops[j] = "pending"
    /\ HasChunk(chunks, req.chunkIds[j])
    /\ chunks' = processChunkMeta(chunks, req.chunkIds[j])
    /\ processedData' = processChunkData(workbook, chunks, processedData, req.chunkIds[j])
    /\ req' = [req EXCEPT !.ops[j] = "loaded"]
    /\ UNCHANGED <<inputVars, second, transformationLog, processorCached, recommendationCache,
                   cleaningActions, analysisDone, exported, accepts>>

\* processor.applyTransformationToChunk of chunk operation j up to the end of
\* the transformation: nothing for a chunk without data rows, an exception
\* for a transformation that throws, the transformed payload otherwise.
OpMutate(j) ==
    /\ req.kind = "apply"
    /\ j \in CurrentBatch(req)
    /\ req.ops[j] = "loaded"
    /\ LET chunkId == req.chunkIds[j]
           t == req.rec.transformation
       IN IF ~HasDataRows(processedData, chunkId)
          THEN /\ req' = [req EXCEPT !.ops[j] = "done"]
               /\ UNCHANGED processedData
          ELSE IF TransformationThrows(t)
          THEN /\ req' = [req EXCEPT !.ops[j] = "failed"]
               /\ UNCHANGED processedData
          ELSE /\ req' = [req EXCEPT !.ops[j] = "mutated"]
               /\ processedData' = ApplySwitch(processedData, chunkId, t)
    /\ UNCHANGED <<inputVars, second, chunks, transformationLog, processorCached,
                   recommendationCache, cleaningActions, analysisDone, exported, accepts>>

\* The rest of applyTransformationToChunk: the entry of the transformation
\* log.  The operations of a batch resume in the order they were started.
OpLog(j) ==
    /\ req.kind = "apply"
    /\ j \in CurrentBatch(req)
    /\ req.ops[j] = "mutated"
    /\ \A h \in CurrentBatch(req) : h < j => OpEnded(req.ops[h])
    /\ transformationLog' = Append(transformationLog,
                                    LogEntry(req.chunkIds[j], req.rec.transformation))
    /\ req' = [req EXCEPT !.ops[j] = "done"]
    /\ UNCHANGED <<inputVars, second, chunks, processedData, processorCached, recommendationCache,
                   cleaningActions, analysisDone, exported, accepts>>

\* A wait that ends with the first operation of the batch that completes
BatchCompleteAny(r) == \E j \in CurrentBatch(r) : r.ops[j] = "done"

\* A wait that ends when every operation of the batch has ended, completed
\* or not
BatchSettled(r) == \A j \in CurrentBatch(r) : OpEnded(r.ops[j])

\* await Promise.all(batchPromises) (or the await of the one chunk) has
\* returned: every operation of the batch has completed.
BatchComplete(r) == \A j \in CurrentBatch(r) : r.ops[j] = "done"

BatchFailed(r) == \E j \in CurrentBatch(r) : r.ops[j] = "failed"

\* The loop goes on to the next batch.
ApplyNextBatch ==
    /\ req.kind = "apply"
    /\ req.state = "running"
    /\ BatchComplete(req)
    /\ req.i + BatchWidth(req) < Len(req.chunkIds)
    /\ req' = [req EXCEPT !.i = @ + BatchWidth(req)]
    /\ UNCHANGED <<inputVars, second, chunks, processedData, transformationLog, processorCached,
                   recommendationCache, cleaningActions, analysisDone, exported, accepts>>

\* An operation of the batch has thrown: the request answers with an error
\* and the decision is not recorded.
ApplyFail ==
    /\ req.kind = "apply"
    /\ req.state = "running"
    /\ BatchFailed(req)
    /\ req' = [req EXCEPT !.state = "error"]
    /\ UNCHANGED <<inputVars, second, chunks, processedData, transformationLog, processorCached,
                   recommendationCache, cleaningActions, analysisDone, exported, accepts>>

\* The last batch has completed: the decision is recorded.
ApplyFinish ==
    /\ req.kind = "apply"
    /\ req.state = "running"
    /\ BatchComplete(req)
    /\ req.i + BatchWidth(req) >= Len(req.chunkIds)
    /\ cleaningActions' = UpdateDecision(cleaningActions, req.rec, "accepted")
    /\ req' = [req EXCEPT !.state = "ok"]
    /\ UNCHANGED <<inputVars, second, chunks, processedData, transformationLog, processorCached,
                   recommendationCache, analysisDone, exported, accepts>>

\* A request to accept a recommendation while no processor is cached, or a
\* request to skip one: only the decision is recorded.
ApplyUnprocessed ==
    /\ analysisDone
    /\ Idle
    /\ accepts < MaxAccepts
    /\ LET recommendations == RequestRecommendations
       IN /\ Len(recommendations) > 0
          /\ \E k \in DOMAIN recommendations, decision \in {"accept", "skip"} :
                LET recommendation == FindRecommendation(recommendations,
                                                         recommendations[k].id)
                IN /\ decision = "accept" => ~processorCached
                   /\ req' = [NoRequest EXCEPT
                                 !.kind = IF decision = "accept" THEN "unapplied" ELSE "skip",
                                 !.rec = recommendation,
                                 !.before = processedData]
                   /\ cleaningActions' =
                         UpdateDecision(cleaningActions, recommendation,
                                        IF decision = "accept" THEN "accepted" ELSE "skipped")
          /\ recommendationCache' = recommendations
    /\ accepts' = accepts + 1
    /\ UNCHANGED <<inputVars, second, chunks, processedData, transformationLog, processorCached,
                   analysisDone, exported>>

(***************************************************************************)
(* POST download-chunked/excel                                             *)
(***************************************************************************)
DownloadAnswer(result) ==
    [NoRequest EXCEPT !.kind = "download",
                      !.state = IF result.status = "ok" THEN "ok" ELSE "error"]

\* The processor is cached: the document is generated from it.
DownloadCached ==
    /\ Idle
    /\ processorCached
    /\ exported' = generateCleanedExcelFromChunks(chunks, processedData)
    /\ req' = DownloadAnswer(exported')
    /\ UNCHANGED <<inputVars, second, chunks, processedData, transformationLog, processorCached,
                   recommendationCache, cleaningActions, analysisDone, accepts>>

\* The chunks an accepted action is re-applied to
targetChunks(action, cs) ==
    SelectSeq(cs, LAMBDA chunk :
        /\ (action.target_sheet # "" => chunk.sheetName = action.target_sheet)
        /\ (action.target_column # "" => action.target_column \in Range(chunk.headers)))

\* chunkActions: the transformations of the accepted actions by chunk, the
\* chunks in the order of their first action.
RECURSIVE chunkActions(_, _)
chunkActions(acceptedActions, cs) ==
    IF acceptedActions = <<>> THEN <<>>
    ELSE LET n == Len(acceptedActions)
             before == chunkActions(SubSeq(acceptedActions, 1, n - 1), cs)
             action == acceptedActions[n]
             ids == ChunkIdsOf(targetChunks(action, cs))
             known == [k \in DOMAIN before |->
                         IF before[k].key \in Range(ids)
                         THEN [before[k] EXCEPT
                                  !.data = Append(@, action.transformation_data)]
                         ELSE before[k]]
             new == SelectSeq(ids, LAMBDA id : ~MapHas(before, id))
         IN known \o [k \in DOMAIN new |->
                         [key |-> new[k], data |-> <<action.transformation_data>>]]

\* All transformations of one chunk, one after the other: the payloads
\* after them, which of them wrote a log entry, and whether one threw.
RECURSIVE ApplyAll(_, _, _)
ApplyAll(pd, chunkId, ts) ==
    IF ts = <<>> THEN [pd |-> pd, logged |-> <<>>, failed |-> FALSE]
    ELSE IF ~HasDataRows(pd, chunkId)
    THEN LET rest == ApplyAll(pd, chunkId, Tail(ts))
         IN [rest EXCEPT !.logged = <<FALSE>> \o @]
    ELSE IF TransformationThrows(Head(ts))
    THEN [pd |-> pd, logged |-> [k \in DOMAIN ts |-> FALSE], failed |-> TRUE]
    ELSE LET rest == ApplyAll(ApplySwitch(pd, chunkId, Head(ts)), chunkId, Tail(ts))
         IN [rest EXCEPT !.logged = <<TRUE>> \o @]

\* The operations of a batch started together: every chunk is loaded, then
\* the chunks take turns with their next transformation.
RECURSIVE ApplyBatch(_, _)
ApplyBatch(pd, entries) ==
    IF entries = <<>> THEN [pd |-> pd, logged |-> <<>>, failed |-> FALSE]
    ELSE LET one == ApplyAll(pd, Head(entries).key, Head(entries).data)
             rest == ApplyBatch(one.pd, Tail(entries))
         IN [pd |-> rest.pd, logged |-> <<one.logged>> \o rest.logged,
             failed |-> one.failed \/ rest.failed]

BatchLog(entries, logged) ==
    LET lens == {0} \cup {Len(entries[j].data) : j \in DOMAIN entries}
        rounds == CHOOSE n \in lens : \A m \in lens : m <= n
    IN Flatten([k \in 1..rounds |->
           Flatten([j \in DOMAIN entries |->
               IF k <= Len(entries[j].data) /\ logged[j][k]
               THEN <<LogEntry(entries[j].key, entries[j].data[k])>>
               ELSE <<>>])])

\* The eviction of the re-application loop
DownloadEvict(pd, chunkIds, i) ==
    IF i > DownloadBatchSize
    THEN ClearChunks(pd, Slice(chunkIds, Max(0, i - DownloadBatchSize * 2),
                               i - DownloadBatchSize))
    ELSE pd

\* No processor is cached: one is made from the stored file with the
\* default chunk size, and the accepted actions are grouped by chunk.
DownloadStart ==
    /\ Idle
    /\ ~processorCached
    /\ LET cs == parseExcelInChunks(fromStorage(workbook), DefaultChunkSize)
           acceptedActions == SelectSeq(cleaningActions,
                                        LAMBDA a : a.user_decision = "accepted")
           grouped == chunkActions(acceptedActions, cs)
       IN /\ chunks' = cs
          /\ req' = [NoRequest EXCEPT
                        !.kind = "recreate", !.state = "running",
                        !.chunkIds = [k \in DOMAIN grouped |-> grouped[k].key],
                        !.actions = grouped]
    /\ processedData' = <<>>
    /\ transformationLog' = <<>>
    /\ UNCHANGED <<inputVars, second, processorCached, recommendationCache, cleaningActions,
                   analysisDone, exported, accepts>>

\* One iteration of the re-application loop; an exception ends the request
\* with an error and the processor is not cached.
DownloadBatch ==
    /\ req.kind = "recreate"
    /\ req.state = "running"
    /\ req.i < Len(req.chunkIds)
    /\ LET batchChunkIds == BatchOf(req.chunkIds, req.i, DownloadBatchSize)
           entries == BatchOf(req.actions, req.i, DownloadBatchSize)
           cs1 == MarkProcessed(chunks, batchChunkIds)
           pd1 == ProcessChunks(workbook, chunks, processedData, batchChunkIds)
           applied == ApplyBatch(pd1, entries)
       IN /\ chunks' = cs1
          /\ transformationLog' = transformationLog \o BatchLog(entries, applied.logged)
          /\ IF applied.failed
             THEN /\ processedData' = applied.pd
                  /\ req' = [req EXCEPT !.state = "error"]
                  /\ exported' = [status |-> "error", sheets |-> <<>>]
             ELSE /\ processedData' = DownloadEvict(applied.pd, req.chunkIds, req.i)
                  /\ req' = [req EXCEPT !.i = @ + DownloadBatchSize]
                  /\ UNCHANGED exported
    /\ UNCHANGED <<inputVars, second, processorCached, recommendationCache, cleaningActions,
                   analysisDone, accepts>>

\* After the loop the processor is cached and the document is generated.
DownloadFinish ==
    /\ req.kind = "recreate"
    /\ req.state = "running"
    /\ req.i >= Len(req.chunkIds)
    /\ processorCached' = TRUE
    /\ exported' = generateCleanedExcelFromChunks(chunks, processedData)
    /\ req' = [req EXCEPT !.state = IF exported'.status = "ok" THEN "ok" ELSE "error"]
    /\ UNCHANGED <<inputVars, second, chunks, processedData, transformationLog,
                   recommendationCache, cleaningActions, analysisDone, accepts>>

(***************************************************************************)
(* The server process                                                      *)
(***************************************************************************)
\* A restart of the server loses the two in-memory caches.
ServerRestart ==
    /\ Idle
    /\ processorCached \/ Len(recommendationCache) > 0
    /\ processorCached' = FALSE
    /\ recommendationCache' = <<>>
    /\ chunks' = <<>>
    /\ processedData' = <<>>
    /\ transformationLog' = <<>>
    /\ req' = [NoRequest EXCEPT !.kind = "restart"]
    /\ UNCHANGED <<inputVars, second, cleaningActions, analysisDone, exported, accepts>>

Next ==
    \/ AnalyzeStart
    \/ AnalyzeBatch
    \/ AnalyzeFinish
    \/ ApplyStart
    \/ \E j \in DOMAIN req.chunkIds : OpLoad(j)
    \/ \E j \in DOMAIN req.chunkIds : OpMutate(j)
    \/ \E j \in DOMAIN req.chunkIds : OpLog(j)
    \/ ApplyNextBatch
    \/ ApplyFail
    \/ ApplyFinish
    \/ ApplyUnprocessed
    \/ DownloadCached
    \/ DownloadStart
    \/ DownloadBatch
    \/ DownloadFinish
    \/ ServerRestart

Spec == Init /\ [][Next]_vars

\* The analysis of a session and the downloads of its document.
AnalysisNext ==
    \/ AnalyzeStart
    \/ AnalyzeBatch
    \/ AnalyzeFinish
    \/ DownloadCached

AnalysisSpec == AnalysisInit /\ [][AnalysisNext]_vars

(***************************************************************************)
(* Two accept requests of one session against the cached processor.  req   *)
(* is the first request and second the other one.  A handler runs from one *)
(* wait for the outside world (the request body, the database) to the      *)
(* next; the chunk loop of an accept waits for nothing outside the process,*)
(* so the second request can arrive at any moment but its handler starts   *)
(* its loop only when no loop is running (Idle).                           *)
(***************************************************************************)
\* The second request reaches the server, possibly in the middle of the
\* chunk loop of the first one.
SecondArrive ==
    /\ analysisDone
    /\ processorCached
    /\ req.kind = "apply"
    /\ second.kind = "none"
    /\ second' = [NoRequest EXCEPT !.kind = "apply", !.state = "received",
                                   !.concurrent = ~TurnFree(req)]
    /\ UNCHANGED <<inputVars, chunks, processedData, transformationLog, processorCached,
                   recommendationCache, cleaningActions, analysisDone, req, exported,
                   accepts>>

\* The handler of the second request gets its turn: the chunks to process
\* are chosen and the first batch starts.
SecondStart ==
    /\ second.state = "received"
    /\ Idle
    /\ processorCached
    /\ LET recommendations == RequestRecommendations
       IN /\ Len(recommendations) > 0
          /\ \E k \in DOMAIN recommendations :
                LET recommendation == FindRecommendation(recommendations,
                                                         recommendations[k].id)
                    toProcess == chunksToProcess(recommendation, chunks)
                IN second' = [second EXCEPT
                                 !.state = "running",
                                 !.rec = recommendation,
                                 !.chunkIds = toProcess,
                                 !.parallel = UseParallel(recommendation, toProcess),
                                 !.ops = [j \in DOMAIN toProcess |-> "pending"],
                                 !.before = processedData]
          /\ recommendationCache' = recommendations
    /\ UNCHANGED <<inputVars, chunks, processedData, transformationLog, processorCached,
                   cleaningActions, analysisDone, req, exported, accepts>>

\* processor.processChunk(chunk.chunkId) of chunk operation j of the second
\* request
SecondLoad(j) ==
    /\ second.state = "running"
    /\ j \in CurrentBatch(second)
    /\ second.ops[j] = "pending"
    /\ HasChunk(chunks, second.chunkIds[j])
    /\ chunks' = processChunkMeta(chunks, second.chunkIds[j])
    /\ processedData' = processChunkData(workbook, chunks, processedData, second.chunkIds[j])
    /\ second' = [second EXCEPT !.ops[j] = "loaded"]
    /\ UNCHANGED <<inputVars, transformationLog, processorCached, recommendationCache,
                   cleaningActions, analysisDone, req, exported, accepts>>

\* processor.applyTransformationToChunk of chunk operation j of the second
\* request, up to the end of the transformation
SecondMutate(j) ==
    /\ second.state = "running"
    /\ j \in CurrentBatch(second)
    /\ second.ops[j] = "loaded"
    /\ LET chunkId == second.chunkIds[j]
           t == second.rec.transformation
       IN IF ~HasDataRows(processedData, chunkId)
          THEN /\ second' = [second EXCEPT !.ops[j] = "done"]
               /\ UNCHANGED processedData
          ELSE IF TransformationThrows(t)
          THEN /\ second' = [second EXCEPT !.ops[j] = "failed"]
               /\ UNCHANGED processedData
          ELSE /\ second' = [second EXCEPT !.ops[j] = "mutated"]
               /\ processedData' = ApplySwitch(processedData, chunkId, t)
    /\ UNCHANGED <<inputVars, chunks, transformationLog, processorCached,
                   recommendationCache, cleaningActions, analysisDone, req, exported,
                   accepts>>

\* The entry of the transformation log of chunk operation j of the second
\* request
SecondLog(j) ==
    /\ second.state = "running"
    /\ j \in CurrentBatch(second)
    /\ second.ops[j] = "mutated"
    /\ \A h \in CurrentBatch(second) : h < j => OpEnded(second.ops[h])
    /\ transformationLog' = Append(transformationLog,
                                    LogEntry(second.chunkIds[j], second.rec.transformation))
    /\ second' = [second EXCEPT !.ops[j] = "done"]
    /\ UNCHANGED <<inputVars, chunks, processedData, processorCached, recommendationCache,
                   cleaningActions, analysisDone, req, exported, accepts>>

\* The loop of the second request goes on to the next batch.
SecondNextBatch ==
    /\ second.state = "running"
    /\ BatchComplete(second)
    /\ second.i + BatchWidth(second) < Len(second.chunkIds)
    /\ second' = [second EXCEPT !.i = @ + BatchWidth(second)]
    /\ UNCHANGED <<inputVars, chunks, processedData, transformationLog, processorCached,
                   recommendationCache, cleaningActions, analysisDone, req, exported,
                   accepts>>

\* An operation of the second request has thrown: it answers with an error.
SecondFail ==
    /\ second.state = "running"
    /\ BatchFailed(second)
    /\ second' = [second EXCEPT !.state = "error"]
    /\ UNCHANGED <<inputVars, chunks, processedData, transformationLog, processorCached,
                   recommendationCache, cleaningActions, analysisDone, req, exported,
                   accepts>>

\* The last batch of the second request has completed: its decision is
\* recorded.
SecondFinish ==
    /\ second.state = "running"
    /\ BatchComplete(second)
    /\ second.i + BatchWidth(second) >= Len(second.chunkIds)
    /\ cleaningActions' = UpdateDecision(cleaningActions, second.rec, "accepted")
    /\ second' = [second EXCEPT !.state = "ok"]
    /\ UNCHANGED <<inputVars, chunks, processedData, transformationLog, processorCached,
                   recommendationCache, analysisDone, req, exported, accepts>>

\* The session of the two requests: a sheet of several chunks.
ConcurrentInit ==
    /\ workbook = FamilyFile(MaxFamilyRows)
    /\ chunkSize = MaxChunkSize
    /\ hasModel \in BOOLEAN
    /\ aiAnswer \in (IF hasModel THEN AiAnswers(workbook) ELSE {<<>>})
    /\ NothingRequested

ConcurrentNext ==
    \/ AnalyzeStart
    \/ AnalyzeBatch
    \/ AnalyzeFinish
    \/ ApplyStart
    \/ \E j \in DOMAIN req.chunkIds : OpLoad(j)
    \/ \E j \in DOMAIN req.chunkIds : OpMutate(j)
    \/ \E j \in DOMAIN req.chunkIds : OpLog(j)
    \/ ApplyNextBatch
    \/ ApplyFail
    \/ ApplyFinish
    \/ SecondArrive
    \/ SecondStart
    \/ \E j \in DOMAIN second.chunkIds : SecondLoad(j)
    \/ \E j \in DOMAIN second.chunkIds : SecondMutate(j)
    \/ \E j \in DOMAIN second.chunkIds : SecondLog(j)
    \/ SecondNextBatch
    \/ SecondFail
    \/ SecondFinish

ConcurrentSpec == ConcurrentInit /\ [][ConcurrentNext]_vars

(***************************************************************************)
(* ChunkedExcelProcessor called method by method: parseExcelInChunks, then *)
(* up to MaxCalls calls of processChunk, applyTransformationToChunk and    *)
(* clearProcessedChunk, each awaited before the next.  req is the last     *)
(* call: its method, its chunk id, its transformation, how it ended, and   *)
(* in req.i the number of calls made.                                      *)
(***************************************************************************)
\* Sheet Dup: the rows A, B, A, C, A.  Sheet Med: the column null, 2, 4, 6,
\* null.  Sheet Even: the column null, 2, 4.
ContractFile ==
    LET A == <<Str(<<"a">>), Num(1)>>
        B == <<Str(<<"b">>), Num(1)>>
        C == <<Str(<<"c">>), Null>>
    IN <<Sheet("Dup", <<"Key", "Tag">>, <<A, B, A, C, A>>),
         Sheet("Med", <<"Val">>, <<<<Null>>, <<Num(2)>>, <<Num(4)>>, <<Num(6)>>, <<Null>>>>),
         Sheet("Even", <<"Val">>, <<<<Null>>, <<Num(2)>>, <<Num(4)>>>>)>>

\* The stored files of the sessions, and a session whose file is lost
ProcessorWorkbooks == {ContractFile, FamilyFile(0), FamilyFile(2), NoFile}

\* new ChunkedExcelProcessor(buffer, sessionId, chunkSize) takes any number
ProcessorChunkSizes == {0 - 1, 0, MaxChunkSize, DefaultChunkSize}

ProcessorTransformations ==
    {Transformation("remove_duplicates", "Dup"),
     [Transformation("fill_missing", "Med") EXCEPT !.column = "Val", !.method = "median"],
     [Transformation("fill_missing", "Med") EXCEPT !.column = "Absent", !.method = "median"],
     Transformation("normalize_data", "Dup")}

\* A chunk id no chunk was created with
UnknownChunkId == ChunkId("Nowhere", 0)

CallIds == Range(ChunkIdsOf(chunks)) \cup {UnknownChunkId}

Call(method, state, chunkId, t) ==
    [NoRequest EXCEPT !.kind = method, !.state = state, !.chunkIds = <<chunkId>>,
                      !.rec = [NoRecommendation EXCEPT !.transformation = t],
                      !.i = req.i + 1, !.before = processedData]

ProcessorInit ==
    /\ workbook \in ProcessorWorkbooks
    /\ chunkSize \in ProcessorChunkSizes
    /\ hasModel = FALSE
    /\ aiAnswer = <<>>
    /\ NothingRequested

\* The first sheet whose chunk loop does not end: Math.ceil(dataRows / 0) is
\* Infinity for a sheet with data rows (and NaN, no iteration, for a sheet
\* without).  0 if every loop ends.
UnboundedSheet(wb, size) ==
    IF \E i \in DOMAIN wb : size = 0 /\ wb[i].rows # <<>>
    THEN CHOOSE i \in DOMAIN wb :
            /\ wb[i].rows # <<>>
            /\ \A h \in 1..(i - 1) : wb[h].rows = <<>>
    ELSE 0

\* parseExcelInChunks, up to its return or up to the loop that does not end.
CallParse ==
    /\ req.kind = "none"
    /\ LET stuck == UnboundedSheet(fromStorage(workbook), chunkSize)
       IN IF stuck = 0
          THEN /\ chunks' = parseExcelInChunks(fromStorage(workbook), chunkSize)
               /\ req' = [Call("parseExcelInChunks", "ok", UnknownChunkId,
                               Transformation("", "")) EXCEPT !.i = 0]
          ELSE /\ chunks' = parseExcelInChunks(SubSeq(fromStorage(workbook), 1, stuck - 1),
                                                 chunkSize)
               /\ req' = [Call("parseExcelInChunks", "running", UnknownChunkId,
                               Transformation("", "")) EXCEPT !.i = 0, !.processedChunks = stuck]
    /\ UNCHANGED <<inputVars, second, processedData, transformationLog, processorCached,
                   recommendationCache, cleaningActions, analysisDone, exported, accepts>>

\* One more iteration of a chunk loop that does not end.
ParseLoop ==
    /\ req.kind = "parseExcelInChunks"
    /\ req.state = "running"
    /\ req.i < MaxParseLoop
    /\ chunks' = Append(chunks, ChunkMetadataOf(fromStorage(workbook)[req.processedChunks],
                                             chunkSize, req.i))
    /\ req' = [req EXCEPT !.i = @ + 1]
    /\ UNCHANGED <<inputVars, second, processedData, transformationLog, processorCached,
                   recommendationCache, cleaningActions, analysisDone, exported, accepts>>

\* The processor is parsed and the caller may make another call.
Callable ==
    /\ req.kind \notin {"none", "parseExcelInChunks"} \/ (req.kind = "parseExcelInChunks" /\ req.state = "ok")
    /\ req.i < MaxCalls

CallProcessChunk(chunkId) ==
    /\ Callable
    /\ IF ~HasChunk(chunks, chunkId)
       THEN /\ req' = Call("processChunk", "error", chunkId, Transformation("", ""))
            /\ UNCHANGED <<chunks, processedData>>
       ELSE /\ req' = Call("processChunk", "ok", chunkId, Transformation("", ""))
            /\ chunks' = processChunkMeta(chunks, chunkId)
            /\ processedData' = processChunkData(fromStorage(workbook), chunks, processedData, chunkId)
    /\ UNCHANGED <<inputVars, second, transformationLog, processorCached, recommendationCache,
                   cleaningActions, analysisDone, exported, accepts>>

\* applyTransformationToChunk from its call to its return or its exception
CallApplyTransformation(chunkId, t) ==
    /\ Callable
    /\ IF ~HasDataRows(processedData, chunkId)
       THEN /\ req' = Call("applyTransformationToChunk", "ok", chunkId, t)
            /\ UNCHANGED <<processedData, transformationLog>>
       ELSE IF TransformationThrows(t)
       THEN /\ req' = Call("applyTransformationToChunk", "error", chunkId, t)
            /\ UNCHANGED <<processedData, transformationLog>>
       ELSE /\ req' = Call("applyTransformationToChunk", "ok", chunkId, t)
            /\ processedData' = ApplySwitch(processedData, chunkId, t)
            /\ transformationLog' = Append(transformationLog, LogEntry(chunkId, t))
    /\ UNCHANGED <<inputVars, second, chunks, processorCached, recommendationCache,
                   cleaningActions, analysisDone, exported, accepts>>

\* analyzeChunkQuality, which returns the issues of the chunk
CallAnalyzeChunkQuality(chunkId) ==
    /\ Callable
    /\ req' = [Call("analyzeChunkQuality", "ok", chunkId, Transformation("", ""))
                  EXCEPT !.allIssues = analyzeChunkQuality(chunks, processedData, chunkId)]
    /\ UNCHANGED <<inputVars, second, chunks, processedData, transformationLog,
                   processorCached, recommendationCache, cleaningActions, analysisDone,
                   exported, accepts>>

CallClearProcessedChunk(chunkId) ==
    /\ Callable
    /\ req' = Call("clearProcessedChunk", "ok", chunkId, Transformation("", ""))
    /\ processedData' = clearProcessedChunk(processedData, chunkId)
    /\ UNCHANGED <<inputVars, second, chunks, transformationLog, processorCached,
                   recommendationCache, cleaningActions, analysisDone, exported, accepts>>

\* generateCleanedExcelFromChunks, the export of the processor
CallExport ==
    /\ Callable
    /\ exported' = generateCleanedExcelFromChunks(chunks, processedData)
    /\ req' = Call("generateCleanedExcelFromChunks",
                   IF exported'.status = "ok" THEN "ok" ELSE "error",
                   UnknownChunkId, Transformation("", ""))
    /\ UNCHANGED <<inputVars, second, chunks, processedData, transformationLog, processorCached,
                   recommendationCache, cleaningActions, analysisDone, accepts>>

ProcessorNext ==
    \/ CallParse
    \/ ParseLoop
    \/ \E chunkId \in CallIds : CallProcessChunk(chunkId)
    \/ \E chunkId \in CallIds, t \in ProcessorTransformations :
            CallApplyTransformation(chunkId, t)
    \/ \E chunkId \in CallIds : CallAnalyzeChunkQuality(chunkId)
    \/ \E chunkId \in CallIds : CallClearProcessedChunk(chunkId)
    \/ CallExport

ProcessorSpec == ProcessorInit /\ [][ProcessorNext]_vars

(***************************************************************************)
(* The transformations of the processor one by one: a chunk of a sheet is  *)
(* loaded, a transformation is applied to it, and the chunk is analysed or *)
(* the document is generated.                                              *)
(***************************************************************************)
\* Sheet Fill: a column without a value, a column of texts, a column whose
\* values b and a are as frequent as each other, and a column with a cell of
\* one blank.
FillFile ==
    <<Sheet("Fill", <<"Empty", "Text", "Tie", "Blank">>,
        << <<Null, Str(<<"x">>), Str(<<"b">>), Str(<<" ">>)>>,
           <<Null, Null,         Str(<<"a">>), Str(<<"v">>)>>,
           <<Null, Str(<<"y">>), Null,         Null>>,
           <<Null, Str(<<"x">>), Str(<<"a">>), Str(<<"v">>)>>,
           <<Null, Null,         Str(<<"b">>), Null>> >>)>>

\* Sheet Multi: the rows are numbered in column Id; the cells of columns A
\* and B hold lists, and one cell of A holds a delimiter and nothing else.
SplitFile ==
    <<Sheet("Multi", <<"Id", "A", "B">>,
        << <<Num(1), Str(<<"x", ",", "y">>), Str(<<"p", ";", "q">>)>>,
           <<Num(2), Str(<<",">>),           Str(<<"r">>)>>,
           <<Num(3), Str(<<"z">>),           Str(<<"s", "|", "t">>)>> >>)>>

TransformWorkbooks == {ContractFile, FillFile, SplitFile}

TransformTransformations ==
    {[Transformation("normalize_data", "Dup") EXCEPT
         !.hasColumns = TRUE, !.columns = <<"Key", "Tag">>, !.newTableName = "Keys"],
     [Transformation("normalize_data", "Dup") EXCEPT
         !.hasColumns = TRUE, !.columns = <<"Key">>, !.newTableName = "Keys"],
     [Transformation("normalize_data", "Dup") EXCEPT
         !.hasColumns = TRUE, !.columns = <<"Key">>, !.newTableName = "Dup"],
     [Transformation("fill_missing", "Fill") EXCEPT !.column = "Empty", !.method = "median"],
     [Transformation("fill_missing", "Fill") EXCEPT !.column = "Empty", !.method = "mean"],
     [Transformation("fill_missing", "Fill") EXCEPT !.column = "Text", !.method = "median"],
     [Transformation("fill_missing", "Fill") EXCEPT !.column = "Tie", !.method = "mode"],
     [Transformation("fill_missing", "Fill") EXCEPT !.column = "Text", !.method = "mode"],
     [Transformation("fill_missing", "Fill") EXCEPT !.column = "Blank", !.method = "mode"],
     [Transformation("split_multi_value", "Multi") EXCEPT
         !.hasColumns = TRUE, !.columns = <<"B">>],
     [Transformation("split_multi_value", "Multi") EXCEPT
         !.hasColumns = TRUE, !.columns = <<"A">>],
     [Transformation("split_multi_value", "Multi") EXCEPT
         !.hasColumns = TRUE, !.columns = <<"A", "B">>]}

TransformInit ==
    /\ workbook \in TransformWorkbooks
    /\ chunkSize \in {MaxChunkSize, DefaultChunkSize}
    /\ hasModel = FALSE
    /\ aiAnswer = <<>>
    /\ NothingRequested

TransformNext ==
    \/ CallParse
    \/ \E chunkId \in Range(ChunkIdsOf(chunks)) : CallProcessChunk(chunkId)
    \/ \E chunkId \in Range(ChunkIdsOf(chunks)), t \in TransformTransformations :
            CallApplyTransformation(chunkId, t)
    \/ \E chunkId \in Range(ChunkIdsOf(chunks)) : CallAnalyzeChunkQuality(chunkId)
    \/ CallExport

TransformSpec == TransformInit /\ [][TransformNext]_vars

(***************************************************************************)
(* EnhancedExcelProcessor (not chunked): parseExcel, then up to MaxCalls   *)
(* calls of applyAdvancedTransformation.  processedData holds data.sheets, *)
(* the sheets by name, and req the last call.                              *)
(***************************************************************************)
\* values.join("|"): null and undefined are written as the empty string
ValueKey(values) ==
    LET text(v) == IF v.t \in {"null", "undefined"} THEN <<>> ELSE StringOf(v)
        F[i \in 0..Len(values)] ==
            IF i = 0 THEN <<>>
            ELSE IF i = 1 THEN text(values[1])
                 ELSE F[i - 1] \o <<"|">> \o text(values[i])
    IN F[Len(values)]

\* normalizeData on the sheets: the new table gets a row for the first row
\* of each value key, every row of the sheet gets its own row number in the
\* listed columns.
normalizeData(sheets, t) ==
    IF ~MapHas(sheets, t.sheet) \/ MapGet(sheets, t.sheet).rows = <<>> THEN sheets
    ELSE LET sheetData == MapGet(sheets, t.sheet)
             dataRows == sheetData.rows
             columnIndices == [i \in DOMAIN t.columns |->
                                  IndexOf(sheetData.headers, t.columns[i])]
             values(r) == [i \in DOMAIN columnIndices |->
                              CellAt(dataRows[r], columnIndices[i])]
             isNew(r) == \A h \in 1..(r - 1) : ValueKey(values(h)) # ValueKey(values(r))
             normalizedData ==
                 Flatten([r \in DOMAIN dataRows |->
                             IF isNew(r) THEN <<(<<Num(r)>> \o values(r))>> ELSE <<>>])
             mainRow(r) ==
                 LET F[i \in 0..Len(columnIndices)] ==
                         IF i = 0 THEN dataRows[r]
                         ELSE IF columnIndices[i] = 0 THEN F[i - 1]
                              ELSE SetCell(F[i - 1], columnIndices[i], Num(r))
                 IN F[Len(columnIndices)]
         IN MapSet(MapSet(sheets, t.sheet,
                          Payload(sheetData.headers, [r \in DOMAIN dataRows |-> mainRow(r)])),
                   t.newTableName,
                   Payload(<<"ID">> \o t.columns, normalizedData))

\* The rows a sheet of the non-chunked processor is made of
EnhancedRows ==
    {<<Str(<<"a">>), Num(1)>>, <<Str(<<"b">>), Num(1)>>, <<Str(<<"a">>), Num(2)>>}

\* The workbooks of one sheet N of up to MaxEnhancedRows data rows
EnhancedWorkbooks ==
    {<<Sheet("N", <<"K", "V">>, rows)>> :
        rows \in UNION {[1..n -> EnhancedRows] : n \in 0..MaxEnhancedRows}}

EnhancedTransformations ==
    {[Transformation("normalize_data", "N") EXCEPT
         !.hasColumns = TRUE, !.columns = <<"K">>, !.newTableName = "T"],
     [Transformation("normalize_data", "N") EXCEPT
         !.hasColumns = TRUE, !.columns = <<"K", "V">>, !.newTableName = "T"]}

EnhancedInit ==
    /\ workbook \in EnhancedWorkbooks
    /\ chunkSize = DefaultChunkSize
    /\ hasModel = FALSE
    /\ aiAnswer = <<>>
    /\ NothingRequested

\* parseExcel: sheet_to_json of every sheet
EnhancedParse ==
    /\ req.kind = "none"
    /\ processedData' = [i \in DOMAIN workbook |->
                            [key |-> workbook[i].name,
                             data |-> Payload(workbook[i].headers, workbook[i].rows)]]
    /\ req' = [NoRequest EXCEPT !.kind = "parseExcel"]
    /\ UNCHANGED <<inputVars, second, chunks, transformationLog, processorCached,
                   recommendationCache, cleaningActions, analysisDone, exported, accepts>>

\* applyAdvancedTransformation of a normalize_data descriptor
EnhancedApply(t) ==
    /\ req.kind \in {"parseExcel", "applyAdvancedTransformation"}
    /\ req.i < MaxCalls
    /\ t.type = "normalize_data"
    /\ processedData' = normalizeData(processedData, t)
    /\ transformationLog' = Append(transformationLog,
                                    [transformation |-> t, status |-> "completed"])
    /\ req' = [NoRequest EXCEPT !.kind = "applyAdvancedTransformation",
                                !.rec = [NoRecommendation EXCEPT !.transformation = t],
                                !.i = req.i + 1, !.before = processedData]
    /\ UNCHANGED <<inputVars, second, chunks, processorCached, recommendationCache,
                   cleaningActions, analysisDone, exported, accepts>>

EnhancedNext ==
    \/ EnhancedParse
    \/ \E t \in EnhancedTransformations : EnhancedApply(t)

EnhancedSpec == EnhancedInit /\ [][EnhancedNext]_vars

(***************************************************************************)
(* Properties.                                                             *)
(***************************************************************************)
\* The answer of the last request is a generated document.
DownloadAnswered ==
    req.kind \in {"download", "recreate"} /\ req.state = "ok" /\ exported.status = "ok"

\* The sheet of the generated document of this name
ExportedSheet(name) ==
    exported.sheets[CHOOSE i \in DOMAIN exported.sheets : exported.sheets[i].name = name]

HasExportedSheet(name) == \E i \in DOMAIN exported.sheets : exported.sheets[i].name = name

\* The processor of the 10-row sheet has logged the median fill of Age and
\* then the removal of duplicates, and nothing else.
SmallFileBothApplied ==
    /\ workbook = SmallFile
    /\ chunkSize = DefaultChunkSize
    /\ Len(transformationLog) = 2
    /\ transformationLog[1].transformation.type = "fill_missing"
    /\ transformationLog[1].transformation.column = "Age"
    /\ transformationLog[1].transformation.method = "median"
    /\ transformationLog[2].transformation.type = "remove_duplicates"

\* C1: once the fill_missing recommendation for Age and then the
\* remove_duplicates recommendation of the 10-row sheet have been accepted
\* and applied, the generated document holds 9 data rows in the sheet and
\* no empty cell in Age.
C1_ExportReflectsBothFixes ==
    (SmallFileBothApplied /\ DownloadAnswered) =>
        /\ HasExportedSheet("People")
        /\ Len(ExportedSheet("People").data.rows) = 9
        /\ \A r \in DOMAIN ExportedSheet("People").data.rows :
              ~IsEmptyCell(ExportedSheet("People").data.rows[r][2])

\* The sheets of the stored workbook as a document
OriginalSheets(wb) ==
    [i \in DOMAIN wb |-> [name |-> wb[i].name, data |-> Payload(wb[i].headers, wb[i].rows)]]

\* The analysis loop of the request has ended.
AnalysisLoopEnded == req.kind = "analyze" /\ req.state = "running" /\ req.i >= Len(chunks)

\* Every sheet of the workbook has a data row and a text in every header
\* cell.
PlainWorkbook(wb) ==
    \A i \in DOMAIN wb :
        /\ wb[i].rows # <<>>
        /\ \A c \in DOMAIN wb[i].headers : wb[i].headers[c] # ""

\* C2: after parseExcelInChunks and the analysis loop with its eviction,
\* and without any transformation, generateCleanedExcelFromChunks yields
\* the sheets of the stored workbook, row for row and cell for cell, for
\* every chunk size and number of chunks.
C2_ReassemblyIdentity ==
    (AnalysisLoopEnded /\ PlainWorkbook(workbook)) =>
        LET document == generateCleanedExcelFromChunks(chunks, processedData)
        IN /\ document.status = "ok"
           /\ document.sheets = OriginalSheets(workbook)

\* The workbook of the request has been parsed into chunks.
Parsed == req.kind = "analyze"

\* The partition of a sheet of R data rows into chunks of at most C rows
IsPartition(sheetChunks, R, C) ==
    LET n == Len(sheetChunks)
    IN /\ (n - 1) * C < R /\ R <= n * C
       /\ \A k \in 1..n :
             /\ sheetChunks[k].startRow >= 1
             /\ sheetChunks[k].startRow <= sheetChunks[k].endRow
             /\ sheetChunks[k].endRow - sheetChunks[k].startRow + 1 <= C
             /\ sheetChunks[k].startRow = (IF k = 1 THEN 1 ELSE sheetChunks[k - 1].endRow + 1)
       /\ (n > 0 => sheetChunks[n].endRow = R)
       /\ (n = 0 => R = 0)

\* C3: parseExcelInChunks makes ceil(R/C) chunks of a sheet of R data rows,
\* whose row ranges are contiguous, disjoint, ascending, without the header
\* row 0, of at most C rows each, and cover exactly the rows 1..R.
C3_PartitionComplete ==
    Parsed =>
        \A i \in DOMAIN workbook :
            IsPartition(ChunksOfSheet(chunks, workbook[i].name),
                        Len(workbook[i].rows), chunkSize)

\* A sheet parsed into several chunks, the last one smaller than the others
C3_Witness ==
    /\ Parsed
    /\ \E i \in DOMAIN workbook :
          LET sheetChunks == ChunksOfSheet(chunks, workbook[i].name)
              n == Len(sheetChunks)
          IN /\ n >= 3
             /\ sheetChunks[n].endRow - sheetChunks[n].startRow + 1 < chunkSize

\* Chunk operation j of the accept has just called processChunk on a chunk
\* that holds a payload.
LoadsMaterialized(j) ==
    /\ req.kind = "apply"
    /\ j \in DOMAIN req.ops
    /\ req.ops[j] = "pending"
    /\ req' = [req EXCEPT !.ops[j] = "loaded"]
    /\ MapHas(processedData, ChunkKey(req.chunkIds[j]))

\* C4: processChunk on a chunk that is materialized and not evicted leaves
\* the payload held for the chunk as it is, whatever was applied to it, and
\* does not read the source sheet again.
C4_IdempotentMaterialization ==
    [][\A j \in DOMAIN req.ops :
          LoadsMaterialized(j) =>
              MapGet(processedData', ChunkKey(req.chunkIds[j]))
                  = MapGet(processedData, ChunkKey(req.chunkIds[j]))]_vars

\* The document of a processor that holds every chunk of the stored file,
\* with the accepted transformations applied to the chunks they target
RecreatedDocument ==
    LET cs == parseExcelInChunks(workbook, DefaultChunkSize)
        all == ChunkIdsOf(cs)
        entries == [k \in DOMAIN all |->
                       [key |-> all[k],
                        data |-> IF MapHas(req.actions, all[k])
                                 THEN MapGet(req.actions, all[k]) ELSE <<>>]]
        applied == ApplyBatch(ProcessChunks(workbook, cs, <<>>, all), entries)
    IN generateCleanedExcelFromChunks(MarkProcessed(cs, all), applied.pd)

\* The download has recreated the processor and re-applied accepted
\* transformations without an exception.
RecreateEnded ==
    /\ req.kind = "recreate"
    /\ req.state # "running"
    /\ req.i >= Len(req.chunkIds)
    /\ Len(req.chunkIds) > 0

\* C5: the document of a download that recreates the processor holds, for
\* every sheet, the current rows of every chunk of the sheet in startRow
\* order, the chunks no accepted transformation targets and the chunks
\* evicted between batches included, and every normalized table.
C5_RecreatedExportComplete ==
    (RecreateEnded /\ RecreatedDocument.status = "ok") =>
        /\ exported.status = "ok"
        /\ \A i \in DOMAIN RecreatedDocument.sheets :
              \E j \in DOMAIN exported.sheets :
                  exported.sheets[j] = RecreatedDocument.sheets[i]

\* The batch of chunk operation j of the request, counted from 0
BatchNumber(j) == (j - 1) \div BatchWidth(req)

OpStarted(j) == req.ops[j] # "pending"

\* C6: in the parallel branch of an accept the chunk operations run in
\* batches of the batch size, and no operation of a batch has started
\* while an operation of an earlier batch has not completed.
C6_BatchOrdering ==
    (req.kind = "apply" /\ req.parallel) =>
        /\ \A j, h \in DOMAIN req.ops :
              (BatchNumber(h) < BatchNumber(j) /\ OpStarted(j)) => req.ops[h] = "done"
        /\ Cardinality({j \in DOMAIN req.ops : OpStarted(j) /\ req.ops[j] # "done"})
              <= ApplyBatchSize

\* An operation of the second batch of a parallel accept is running
C6_Witness ==
    /\ req.kind = "apply"
    /\ req.parallel
    /\ \E j \in DOMAIN req.ops : BatchNumber(j) = 1 /\ req.ops[j] \in {"loaded", "mutated"}

\* The payload the accept leaves in a chunk it has transformed
AppliedPayload(chunkId, t) ==
    MapGet(ApplySwitch(processChunkData(workbook, chunks, <<>>, chunkId), chunkId, t),
           ChunkKey(chunkId))

\* C7: when the transformation of a chunk fails in an accept, the request
\* answers with an error, no operation of a later batch (parallel) or of a
\* later chunk (sequential) is started, and nothing is rolled back: a chunk
\* the request has transformed holds the transformed payload, a chunk it
\* has only read holds the rows read.
C7_FailureHandling ==
    req.kind = "apply" =>
        /\ (\E j \in DOMAIN req.ops : req.ops[j] = "failed") =>
              /\ req.state \in {"running", "error"}
              /\ (req.state = "running" => ENABLED ApplyFail)
              /\ \A j, h \in DOMAIN req.ops :
                    (req.ops[j] = "failed" /\ BatchNumber(h) > BatchNumber(j)) =>
                        req.ops[h] = "pending"
        /\ \A h \in DOMAIN req.ops :
              /\ req.ops[h] \in {"mutated", "done"} =>
                    MapGet(processedData, ChunkKey(req.chunkIds[h]))
                        = AppliedPayload(req.chunkIds[h], req.rec.transformation)
              /\ req.ops[h] \in {"loaded", "failed"} =>
                    MapGet(processedData, ChunkKey(req.chunkIds[h]))
                        = ReadChunk(workbook, GetChunk(chunks, req.chunkIds[h]))

\* A parallel accept has answered with an error after a failure in its
\* first batch, with the chunks of the later batches not started.
C7_Witness ==
    /\ req.kind = "apply"
    /\ req.parallel
    /\ req.state = "error"
    /\ \E j, h \in DOMAIN req.ops :
          req.ops[j] = "failed" /\ BatchNumber(h) > BatchNumber(j) /\ req.ops[h] = "pending"

\* One chunk of the sequential branch: the chunk is read and transformed.
SequentialStep(pd, chunkId, t) ==
    LET loaded == processChunkData(workbook, chunks, pd, chunkId)
    IN IF ~HasDataRows(loaded, chunkId) \/ TransformationThrows(t) THEN loaded
       ELSE ApplySwitch(loaded, chunkId, t)

\* The sequential branch as a function of the payloads before the request:
\* the payloads after the first n chunks
RECURSIVE SequentialApply(_, _, _, _)
SequentialApply(pd, ids, t, n) ==
    IF n = 0 THEN pd
    ELSE CHOOSE after \in {SequentialStep(previous, ids[n], t) :
                               previous \in {SequentialApply(pd, ids, t, n - 1)}} : TRUE

Uncoordinated ==
    {"fill_missing", "remove_duplicates", "standardize_format", "fix_data_types",
     "trim_whitespace", "split_multi_value"}

\* C8: an accept of a transformation that needs no cross-chunk coordination
\* leaves in every target chunk the payload the sequential branch leaves
\* there, whether it ran in parallel batches, in whatever interleaving of
\* the operations of a batch, or one chunk at a time.
C8_ParallelEqualsSequential ==
    (/\ req.kind = "apply"
     /\ req.state = "ok"
     /\ req.rec.transformation.type \in Uncoordinated) =>
        LET sequential == SequentialApply(req.before, req.chunkIds, req.rec.transformation,
                                          Len(req.chunkIds))
        IN \A j \in DOMAIN req.chunkIds :
               MapGet(processedData, ChunkKey(req.chunkIds[j]))
                   = MapGet(sequential, ChunkKey(req.chunkIds[j]))

\* A parallel accept of several batches has ended and has changed the rows
\* of a chunk of its last batch.
C8_Witness ==
    /\ req.kind = "apply"
    /\ req.state = "ok"
    /\ req.parallel
    /\ req.rec.transformation.type \in Uncoordinated
    /\ Len(req.chunkIds) > ApplyBatchSize
    /\ \E j \in DOMAIN req.chunkIds :
          /\ j > ApplyBatchSize
          /\ MapGet(processedData, ChunkKey(req.chunkIds[j]))
                # ReadChunk(workbook, GetChunk(chunks, req.chunkIds[j]))

\* C9: a recommendation whose transformation carries
\* requiresCrossChunkCoordination is applied one chunk at a time and never
\* in the parallel branch.
C9_CoordinatedIsSequential ==
    (req.kind = "apply" /\ req.rec.transformation.requiresCrossChunkCoordination) =>
        ~req.parallel

\* The data rows of the target chunks of the request, in chunk order
TargetRows == Flatten([j \in DOMAIN req.chunkIds |->
                          MapGet(processedData, ChunkKey(req.chunkIds[j])).rows])

\* C10: after an accepted remove_duplicates_global no data row of the sheet
\* occurs in more than one place across the chunks of the sheet.
C10_GlobalDeduplication ==
    (/\ req.kind = "apply"
     /\ req.state = "ok"
     /\ ~req.parallel
     /\ Len(req.chunkIds) > 1
     /\ req.rec.actionType = "remove_duplicates_global") =>
        \A a, b \in DOMAIN TargetRows :
            a # b => JSONstringify(TargetRows[a]) # JSONstringify(TargetRows[b])

(***************************************************************************)
(* Properties of the processor's methods (ProcessorSpec).                  *)
(***************************************************************************)
\* The chunk id and the transformation of the last call
CalledChunk == req.chunkIds[1]

CalledTransformation == req.rec.transformation

\* The payload of a chunk in a map of payloads
PayloadOf(pd, chunkId) == MapGet(pd, ChunkKey(chunkId))

\* The step is a call of applyTransformationToChunk on a chunk that was
\* created, and the call returns.
ApplyReturns ==
    /\ req'.kind = "applyTransformationToChunk"
    /\ req'.i # req.i
    /\ req'.state = "ok"
    /\ HasChunk(chunks, req'.chunkIds[1])

\* The payloads once the chunk is materialized
Materialized(pd, chunkId) ==
    IF MapHas(pd, ChunkKey(chunkId)) THEN pd
    ELSE processChunkData(fromStorage(workbook), chunks, pd, chunkId)

\* C12: a call of applyTransformationToChunk on a known chunk id that
\* returns has materialized the chunk's payload if it was not, has applied
\* the transformation to that payload and has appended exactly one entry to
\* the transformation log; it never returns having done neither.
C12_ApplyMaterializesAndLogs ==
    [][ApplyReturns =>
          LET chunkId == req'.chunkIds[1]
              t == req'.rec.transformation
          IN /\ processedData' = ApplySwitch(Materialized(processedData, chunkId), chunkId, t)
             /\ transformationLog' = Append(transformationLog, LogEntry(chunkId, t))]_vars

\* The last call named a column that the headers of its chunk do not hold.
ColumnAbsent ==
    /\ req.kind = "applyTransformationToChunk"
    /\ HasChunk(chunks, CalledChunk)
    /\ CalledTransformation.column # ""
    /\ CalledTransformation.column \notin Range(GetChunk(chunks, CalledChunk).headers)

\* C13: processChunk and applyTransformationToChunk with a chunk id that
\* was never created, and a column-scoped transformation whose column the
\* chunk's headers do not hold, end in an error and leave every payload as
\* it was.
C13_StructuralFailuresEscalated ==
    /\ (req.kind \in {"processChunk", "applyTransformationToChunk"}
            /\ ~HasChunk(chunks, CalledChunk))
          => (req.state = "error" /\ processedData = req.before)
    /\ ColumnAbsent => (req.state = "error" /\ processedData = req.before)

\* C14: with a chunk size of 0 or less parseExcelInChunks ends with an
\* error and creates no chunk metadata.
C14_NonPositiveChunkSizeRejected ==
    (chunkSize <= 0 /\ req.kind # "none")
        => (req.kind = "parseExcelInChunks" /\ req.state = "error" /\ chunks = <<>>)

\* The step is a call of clearProcessedChunk.
ClearReturns == req'.kind = "clearProcessedChunk" /\ req'.i # req.i

\* C15: clearProcessedChunk(chunkId) removes the payload entry of that
\* chunk and nothing else: the metadata of every chunk, the payload of
\* every other key, the order of the entries and the transformation log
\* stay as they were, and on a chunk without payload nothing changes.
C15_ClearFrame ==
    [][ClearReturns =>
          LET key == ChunkKey(req'.chunkIds[1])
              others == SelectSeq(processedData, LAMBDA e : e.key # key)
          IN /\ chunks' = chunks
             /\ transformationLog' = transformationLog
             /\ ~MapHas(processedData', key)
             /\ processedData' = others
             /\ (~MapHas(processedData, key) => processedData' = processedData)]_vars

\* A materialized chunk was cleared while another one stays materialized.
C15_Witness ==
    /\ req.kind = "clearProcessedChunk"
    /\ MapHas(req.before, ChunkKey(CalledChunk))
    /\ ~MapHas(processedData, ChunkKey(CalledChunk))
    /\ processedData # <<>>
    /\ GetChunk(chunks, CalledChunk).processed

\* The last call applied a transformation of this type to a chunk with
\* data rows.
Applied(type) ==
    /\ req.kind = "applyTransformationToChunk"
    /\ req.state = "ok"
    /\ CalledTransformation.type = type
    /\ HasDataRows(req.before, CalledChunk)

\* C17: remove_duplicates keeps the header row, keeps every distinct data
\* row exactly once, and keeps the rows in the order of their first
\* occurrence.
C17_RemoveDuplicatesFirstOccurrence ==
    Applied("remove_duplicates") =>
        LET in == PayloadOf(req.before, CalledChunk)
            out == PayloadOf(processedData, CalledChunk)
        IN /\ out.headers = in.headers
           /\ Range(out.rows) = Range(in.rows)
           /\ \A i, j \in DOMAIN out.rows :
                  i < j => /\ out.rows[i] # out.rows[j]
                           /\ IndexOf(in.rows, out.rows[i]) < IndexOf(in.rows, out.rows[j])

\* The rows A, B, A, C, A have become A, B, C.
C17_Witness ==
    /\ Applied("remove_duplicates")
    /\ Len(PayloadOf(req.before, CalledChunk).rows) = 5
    /\ PayloadOf(processedData, CalledChunk).rows
          = <<ContractFile[1].rows[1], ContractFile[1].rows[2], ContractFile[1].rows[4]>>

\* The median of a sorted, non-empty list of numbers
Median(sorted) ==
    LET n == Len(sorted)
    IN IF n % 2 = 1 THEN sorted[(n + 1) \div 2]
       ELSE LET sum == NumAdd(sorted[n \div 2], sorted[(n \div 2) + 1])
            IN Fraction(sum.n, sum.d * 2)

\* The numeric non-empty values of a column, sorted
SortedNumbers(columnData) ==
    LET numbers == SelectSeq(columnData, LAMBDA c : ~IsEmptyCell(c) /\ IsNumeric(c))
    IN SortSeq([i \in DOMAIN numbers |-> NumberOf(numbers[i])], NumLess)

\* C18: fill_missing with method median puts the median of the numeric
\* non-empty values of the target column into every empty cell of the
\* column and changes no other cell.
C18_FillMedian ==
    (/\ Applied("fill_missing")
     /\ CalledTransformation.method = "median"
     /\ IndexOf(PayloadOf(req.before, CalledChunk).headers, CalledTransformation.column) # 0)
        => LET in == PayloadOf(req.before, CalledChunk)
               out == PayloadOf(processedData, CalledChunk)
               columnIndex == IndexOf(in.headers, CalledTransformation.column)
               sorted == SortedNumbers(Column(in.rows, columnIndex))
           IN sorted # <<>> =>
                /\ out.headers = in.headers
                /\ out.rows = [i \in DOMAIN in.rows |->
                                  [c \in DOMAIN in.rows[i] |->
                                      IF c = columnIndex /\ IsEmptyCell(in.rows[i][c])
                                      THEN Median(sorted)
                                      ELSE in.rows[i][c]]]

(***************************************************************************)
(* Properties of the aggregation of issues (AnalysisSpec).                 *)
(***************************************************************************)
\* The (type, sheet, column-or-global) triple of an issue
IssueTriple(issue) ==
    <<issue.type, issue.sheet, IF issue.column = "" THEN "global" ELSE issue.column>>

RECURSIVE SumOfCounts(_)
SumOfCounts(issues) ==
    IF issues = <<>> THEN 0 ELSE Head(issues).count + SumOfCounts(Tail(issues))

\* C16: the aggregation of the chunk-level issues collected so far holds
\* exactly one issue per distinct (type, sheet, column-or-global) triple;
\* its count is the sum of the counts of the issues of that triple and it
\* has at most 5 examples.
C16_AggregationByTriple ==
    LET allIssues == req.allIssues
        aggregated == aggregateIssuesAcrossChunks(allIssues)
        triples == {IssueTriple(allIssues[i]) : i \in DOMAIN allIssues}
    IN /\ {IssueTriple(aggregated[k]) : k \in DOMAIN aggregated} = triples
       /\ Len(aggregated) = Cardinality(triples)
       /\ \A k \in DOMAIN aggregated :
              /\ aggregated[k].count =
                     SumOfCounts(SelectSeq(allIssues,
                         LAMBDA x : IssueTriple(x) = IssueTriple(aggregated[k])))
              /\ Len(aggregated[k].examples) <= 5

(***************************************************************************)
(* Properties of the routing of a transformation to chunks (Spec).         *)
(***************************************************************************)
\* The chunks of a sheet whose headers hold the column, if one is named, in
\* the order of their creation
Routed(sheet, column) ==
    ChunkIdsOf(SelectSeq(chunks, LAMBDA m :
        m.sheetName = sheet /\ (column # "" => column \in Range(m.headers))))

\* C11: a transformation that names a sheet, and possibly a column, is
\* applied to exactly the chunks of that sheet whose headers hold the
\* column, in the order of their creation: by the accept of a
\* recommendation, and by the re-application of the accepted actions to a
\* recreated processor.
C11_ChunkRouting ==
    /\ (req.kind = "apply" /\ req.rec.targetSheet # "")
          => req.chunkIds = Routed(req.rec.targetSheet, req.rec.targetColumn)
    /\ req.kind = "recreate"
          => \A k \in DOMAIN cleaningActions :
                LET action == cleaningActions[k]
                    routedTo == SelectSeq(req.actions, LAMBDA e :
                                    action.transformation_data \in Range(e.data))
                IN (action.user_decision = "accepted" /\ action.target_sheet # "")
                      => [i \in DOMAIN routedTo |-> routedTo[i].key]
                            = Routed(action.target_sheet, action.target_column)

(***************************************************************************)
(* Properties of a processor whose stored file is lost (ProcessorSpec).    *)
(***************************************************************************)
\* The rows of the failure message
FailureRows == Range(FallbackWorkbook[1].rows)

\* C19: when the stored file cannot be retrieved, fromStorage gives a
\* processor over a workbook whose only sheet is named Error and holds only
\* the failure message; every chunk of the processor is a chunk of that
\* sheet, every row it materializes is a row of the failure message, and a
\* document exported from it holds the sheet Error with such rows and no
\* other sheet.
C19_PlaceholderOnly ==
    workbook = NoFile =>
        /\ Len(fromStorage(workbook)) = 1
        /\ fromStorage(workbook)[1].name = "Error"
        /\ fromStorage(workbook)[1].headers = <<"Error", "Message">>
        /\ Range(fromStorage(workbook)[1].rows) = FailureRows
        /\ \A k \in DOMAIN chunks : chunks[k].sheetName = "Error"
        /\ \A k \in DOMAIN processedData :
              /\ processedData[k].key.chunk.sheet = "Error"
              /\ Range(processedData[k].data.rows) \subseteq FailureRows
        /\ req.kind = "generateCleanedExcelFromChunks" /\ req.state = "ok"
              => /\ Len(exported.sheets) = 1
                 /\ exported.sheets[1].name = "Error"
                 /\ Range(exported.sheets[1].data.rows) \subseteq FailureRows

\* The processor of a lost file has been exported.
C19_Witness ==
    /\ workbook = NoFile
    /\ req.kind = "generateCleanedExcelFromChunks"
    /\ req.state = "ok"
    /\ exported.status = "ok"
    /\ exported.sheets[1].data.rows # <<>>

\* The chunk operations of a request that have started and not ended
InFlight(r) == {j \in DOMAIN r.ops : r.ops[j] \in {"loaded", "mutated"}}

\* C20: at every moment at most one in-flight operation targets a chunk id
\* of the processor: the operations in flight of a request are operations of
\* its current batch on chunk ids that differ, the chunk ids of the batches
\* of a request differ, and two accept requests of a session never have
\* operations in flight at the same time on one chunk id.
C20_OneInFlightPerChunk ==
    /\ \A r \in {req, second} :
          /\ InFlight(r) \subseteq CurrentBatch(r)
          /\ \A i, j \in DOMAIN r.chunkIds : i # j => r.chunkIds[i] # r.chunkIds[j]
    /\ \A i \in InFlight(req) : \A j \in InFlight(second) :
          req.chunkIds[i] # second.chunkIds[j]

\* The second request arrived in the middle of the chunk loop of the first
\* one, and has an operation in flight, in a batch after its first one, on a
\* chunk that the first request has processed in a batch of several chunks.
C20_Witness ==
    /\ second.concurrent
    /\ req.parallel
    /\ second.i > 0
    /\ \E j \in InFlight(second) : second.chunkIds[j] \in Range(req.chunkIds)

\* The chunk ids a batch loop goes through, and the size of its batches
LoopChunkIds == IF req.kind = "analyze" THEN ChunkIdsOf(chunks) ELSE req.chunkIds

LoopBatchSize == IF req.kind = "analyze" THEN AnalyzeBatchSize ELSE DownloadBatchSize

\* C21: after each iteration of the analysis loop and of the download
\* re-application loop, the chunks of the two most recently processed
\* batches are still materialized (only chunks of older batches are
\* evicted).
C21_TwoBatchesKept ==
    (req.kind \in {"analyze", "recreate"} /\ req.state = "running")
        => \A j \in DOMAIN LoopChunkIds :
              (req.i - 2 * LoopBatchSize < j /\ j <= req.i)
                  => MapHas(processedData, ChunkKey(LoopChunkIds[j]))

\* The processor has been partitioned.
Partitioned ==
    req.kind \notin {"none", "parseExcelInChunks"}
        \/ (req.kind = "parseExcelInChunks" /\ req.state = "ok")

\* C22: over any sequence of processChunk, analyzeChunkQuality,
\* applyTransformationToChunk, clearProcessedChunk and export calls the chunk
\* ids and each chunk's startRow, endRow, sheetName and headers never change,
\* and a processed flag that is true stays true.
C22_MetadataStable ==
    [][Partitioned =>
          /\ DOMAIN chunks' = DOMAIN chunks
          /\ \A k \in DOMAIN chunks :
                /\ chunks'[k] = [chunks[k] EXCEPT !.processed = chunks'[k].processed]
                /\ chunks[k].processed => chunks'[k].processed]_vars

\* A chunk has been loaded, transformed and then evicted: it has no payload
\* and its flag is true, while another chunk has been loaded as well.
C22_Witness ==
    /\ req.kind = "clearProcessedChunk"
    /\ HasChunk(chunks, req.chunkIds[1])
    /\ GetChunk(chunks, req.chunkIds[1]).processed
    /\ ~MapHas(processedData, ChunkKey(req.chunkIds[1]))
    /\ \E k \in DOMAIN chunks : chunks[k].processed /\ chunks[k].chunkId # req.chunkIds[1]

\* The payloads of the chunks (not the auxiliary tables)
ChunkPayloads == SelectSeq(processedData, LAMBDA e : e.key.table = "")

\* C23: after any transformation, every data row of a chunk's payload has as
\* many cells as the payload's header row and as the header of the chunk
\* that is written for the sheet at export.
C23_RowWidth ==
    \A k \in DOMAIN ChunkPayloads :
        LET payload == ChunkPayloads[k].data
            written == GetChunk(chunks, ChunkPayloads[k].key.chunk).headers
        IN /\ Len(payload.headers) = Len(written)
           /\ \A r \in DOMAIN payload.rows : Len(payload.rows[r]) = Len(payload.headers)

\* C24: the generated document never holds two sheets of one name, and the
\* export of a processor with a materialized chunk succeeds, also after
\* normalize_data (the new table named as an original sheet, or one table
\* name for several chunks).
C24_UniqueSheetNames ==
    /\ \A i, j \in DOMAIN exported.sheets :
            i # j => exported.sheets[i].name # exported.sheets[j].name
    /\ (req.kind = "generateCleanedExcelFromChunks" /\ ExportedChunks(chunks, processedData) # <<>>)
            => exported.status = "ok"

\* C25: an accepted recommendation with an empty affectedChunks list, whose
\* transformation names a sheet, is applied to all chunks of that sheet and
\* to no other chunk (so not to zero chunks when the sheet has chunks).
C25_EmptyAffectedChunksFallback ==
    (/\ req.kind = "apply"
     /\ req.rec.affectedChunks = <<>>
     /\ req.rec.transformation.sheet # "")
        => req.chunkIds = ChunkIdsOf(ChunksOfSheet(chunks, req.rec.transformation.sheet))

\* C26: fill_missing with method median or mean on a column without a
\* numeric non-empty value (also a column whose cells are all empty) puts 0
\* into every empty cell of the column.
C26_FillZeroWithoutNumbers ==
    (/\ Applied("fill_missing")
     /\ CalledTransformation.method \in {"median", "mean"}
     /\ CalledTransformation.column \in Range(PayloadOf(req.before, CalledChunk).headers))
        => LET in == PayloadOf(req.before, CalledChunk)
               out == PayloadOf(processedData, CalledChunk)
               c == IndexOf(in.headers, CalledTransformation.column)
           IN SortedNumbers(Column(in.rows, c)) = <<>>
                  => \A r \in DOMAIN in.rows :
                        IsEmptyCell(in.rows[r][c]) => out.rows[r][c] = Num(0)

\* The number of cells of a column that hold the text of v
Frequency(columnData, v) ==
    Cardinality({i \in DOMAIN columnData : StringOf(columnData[i]) = StringOf(v)})

\* The most frequent of the non-empty values of a column, the first of them
\* in the column when several are as frequent
FirstMode(columnData) ==
    LET values == SelectSeq(columnData, LAMBDA c : ~IsEmptyCell(c))
        i == CHOOSE i \in DOMAIN values :
                /\ \A j \in DOMAIN values :
                      Frequency(values, values[j]) <= Frequency(values, values[i])
                /\ \A j \in 1..(i - 1) :
                      Frequency(values, values[j]) < Frequency(values, values[i])
    IN StringOf(values[i])

\* C27: fill_missing with method mode puts the most frequent non-empty value
\* of the column into the empty cells, and among values of the highest
\* frequency the one that occurs first in the column.
C27_FillModeFirst ==
    (/\ Applied("fill_missing")
     /\ CalledTransformation.method = "mode"
     /\ CalledTransformation.column \in Range(PayloadOf(req.before, CalledChunk).headers))
        => LET in == PayloadOf(req.before, CalledChunk)
               out == PayloadOf(processedData, CalledChunk)
               c == IndexOf(in.headers, CalledTransformation.column)
           IN (\E r \in DOMAIN in.rows : ~IsEmptyCell(in.rows[r][c]))
                  => \A r \in DOMAIN in.rows :
                        IsEmptyCell(in.rows[r][c])
                            => StringOf(out.rows[r][c]) = FirstMode(Column(in.rows, c))

\* The last call analysed a chunk right after a fill_missing with a defined
\* fill value was applied to a column of it: the last entry of the log is
\* that fill, and no cell of the column is null, undefined or "".
AnalysedAfterFill ==
    /\ req.kind = "analyzeChunkQuality"
    /\ transformationLog # <<>>
    /\ LET last == transformationLog[Len(transformationLog)]
       IN /\ last.chunkId = CalledChunk
          /\ last.transformation.type = "fill_missing"
          /\ HasDataRows(processedData, CalledChunk)
          /\ LET payload == PayloadOf(processedData, CalledChunk)
                 c == IndexOf(payload.headers, last.transformation.column)
             IN /\ c # 0
                /\ \A r \in DOMAIN payload.rows : ~IsEmptyCell(payload.rows[r][c])

\* C28: after fill_missing with a defined fill value on a column of a chunk,
\* analyzeChunkQuality reports no missing_values issue for that column,
\* whatever the column holds (also cells of blanks only).
C28_AnalyzerAgreesWithFill ==
    AnalysedAfterFill =>
        \A k \in DOMAIN req.allIssues :
            ~(/\ req.allIssues[k].type = "missing_values"
              /\ req.allIssues[k].column
                    = transformationLog[Len(transformationLog)].transformation.column)

\* The last call normalized a sheet with data rows on columns it has.
Normalized ==
    /\ req.kind = "applyAdvancedTransformation"
    /\ CalledTransformation.type = "normalize_data"
    /\ MapHas(req.before, CalledTransformation.sheet)
    /\ MapGet(req.before, CalledTransformation.sheet).rows # <<>>
    /\ Range(CalledTransformation.columns)
          \subseteq Range(MapGet(req.before, CalledTransformation.sheet).headers)

\* C29: after normalize_data on a sheet, the reference id written into a row
\* of the sheet is the ID of exactly one row of the new sheet, and that row
\* holds the values the row of the sheet had in the listed columns (also for
\* a row that repeats the values of an earlier row).
C29_ReferencesResolve ==
    Normalized =>
        LET t == CalledTransformation
            in == MapGet(req.before, t.sheet)
            out == MapGet(processedData, t.sheet)
            aux == MapGet(processedData, t.newTableName)
            col(i) == IndexOf(in.headers, t.columns[i])
        IN \A r \in DOMAIN out.rows :
              LET matches == {a \in DOMAIN aux.rows : aux.rows[a][1] = out.rows[r][col(1)]}
              IN /\ Cardinality(matches) = 1
                 /\ \A a \in matches : \A i \in DOMAIN t.columns :
                        aux.rows[a][i + 1] = in.rows[r][col(i)]

\* The last call split columns of a chunk that has them, and the rows of the
\* chunk were as wide as its header row and numbered by distinct values in
\* column Id.
SplitApplied ==
    /\ Applied("split_multi_value")
    /\ LET in == PayloadOf(req.before, CalledChunk)
       IN /\ Range(CalledTransformation.columns) \cup {"Id"} \subseteq Range(in.headers)
          /\ "Id" \notin Range(CalledTransformation.columns)
          /\ \A r \in DOMAIN in.rows : Len(in.rows[r]) = Len(in.headers)
          /\ \A i, j \in DOMAIN in.rows :
                i # j => in.rows[i][IndexOf(in.headers, "Id")]
                            # in.rows[j][IndexOf(in.headers, "Id")]

\* C30: split_multi_value makes at least one row of every row, in the order
\* of the rows (also of a row whose cell holds only delimiters), and leaves
\* no list in any of the listed columns.
C30_SplitKeepsRowsAndColumns ==
    SplitApplied =>
        LET in == PayloadOf(req.before, CalledChunk)
            out == PayloadOf(processedData, CalledChunk)
            ids(rows) == Column(rows, IndexOf(in.headers, "Id"))
        IN /\ DistinctInOrder(ids(out.rows)) = ids(in.rows)
           /\ \A i, k \in DOMAIN out.rows :
                 (i < k /\ ids(out.rows)[i] = ids(out.rows)[k])
                     => \A j \in i..k : ids(out.rows)[j] = ids(out.rows)[i]
           /\ \A r \in DOMAIN out.rows : \A c \in Range(CalledTransformation.columns) :
                 ~HasDelimiter(out.rows[r][IndexOf(in.headers, c)])

=============================================================================
